---------------------------- MODULE Spec2Model ----------------------------
(***************************************************************************)
(* Wolf-Lang front end: the lexer (src/src/lexer.rs) and the recursive-     *)
(* descent parser with its scope stack (src/src/parser.rs).                 *)
(*                                                                          *)
(* Tokens are records [k |-> variant, v |-> payload]; a variant without a   *)
(* payload carries "".  Option values are <<"Some", x>> and <<"None">>.     *)
(* AST nodes are tuples whose first element is the variant name and whose   *)
(* other elements are the fields in declaration order.  Every production    *)
(* returns [ok, pos, val]: the Result (val is the node or the ParseError)   *)
(* together with the cursor the call leaves behind.  The cursor is 0-based  *)
(* as in the source: the current token is ts[pos + 1].                      *)
(***************************************************************************)
EXTENDS Integers, Sequences, FiniteSets, TLC

VARIABLES
    tokens,     \* Parser.tokens
    pos,        \* Parser.pos
    output,     \* Parser.output
    scopes,     \* Parser.scopes: sequence of maps, last is innermost
    functions,  \* Parser.functions
    call,       \* the last operation called on the parser, with its arguments
    result,     \* what that operation returned
    chars,      \* lexer: the input text as a sequence of characters
    i,          \* lexer: index of the next character (0-based)
    token,      \* lexer: the local token vector
    lexed,      \* lexer: <<"Running">>, <<"Ok", tokens>> or <<"Err", message>>
    watch       \* the scope stack as it was when the last parse_block started

vars == <<tokens, pos, output, scopes, functions, call, result, chars, i, token, lexed,
          watch>>

parserVars == <<tokens, pos, output, scopes, functions, call, result, watch>>
lexerVars == <<chars, i, token, lexed>>

-----------------------------------------------------------------------------
(* Token and Option values *)

Tok(k, v) == [k |-> k, v |-> v]
T(k) == Tok(k, "")
Some(x) == <<"Some", x>>
None == <<"None">>
Unit == <<"Unit">>

Integer(n) == Tok("Integer", n)
Float(f) == Tok("Float", f)
String(s) == Tok("String", s)
Boolean(b) == Tok("Boolean", b)
Identifier(s) == Tok("Identifier", s)
TypeList(inner) == Tok("TypeList", inner)
List(elements) == Tok("List", elements)

(* The outcome of a call: the Result and the cursor after it. *)
Ok(p, v) == [ok |-> TRUE, pos |-> p, val |-> v]
Err(p, e) == [ok |-> FALSE, pos |-> p, val |-> e]

UnexpectedToken(expected, found) == <<"UnexpectedToken", expected, found>>
TypeMismatch(expected, found) == <<"TypeMismatch", expected, found>>
UndeclaredVariable(name) == <<"UndeclaredVariable", name>>

-----------------------------------------------------------------------------
(* Cursor primitives *)

current_token(ts, p) == IF p < Len(ts) THEN Some(ts[p + 1]) ELSE None

peek(ts, p) == IF p + 1 < Len(ts) THEN Some(ts[p + 2]) ELSE None

check(ts, p, tk) == p < Len(ts) /\ ts[p + 1] = tk

(* current token is of variant k, whatever its payload *)
IsKind(ts, p, k) == p < Len(ts) /\ ts[p + 1].k = k

(* an eat that compares the variant and not the payload *)
eat_variant_only(ts, p, token_type) ==
    IF p < Len(ts)
    THEN IF ts[p + 1].k = token_type.k
         THEN Ok(p + 1, Unit)
         ELSE Err(p, UnexpectedToken(token_type, Some(ts[p + 1])))
    ELSE Err(p, UnexpectedToken(token_type, None))

eat(ts, p, token_type) ==
    IF p < Len(ts)
    THEN IF ts[p + 1] = token_type
         THEN Ok(p + 1, Unit)
         ELSE Err(p, UnexpectedToken(token_type, Some(ts[p + 1])))
    ELSE Err(p, UnexpectedToken(token_type, None))

token_to_literal(tk) ==
    CASE tk.k = "Integer" -> <<"Int", tk.v>>
      [] tk.k = "Float"   -> <<"Float", tk.v>>
      [] tk.k = "String"  -> <<"Str", tk.v>>
      [] tk.k = "Boolean" -> <<"Bool", tk.v>>
      [] OTHER            -> <<"Nil">>

-----------------------------------------------------------------------------
(* Rust's `?`: an Err is returned as it is, an Ok value is handed on.  The  *)
(* call r is made once: x is its value.                                    *)
Try(r, K(_)) ==
    CHOOSE y \in {IF x.ok THEN K(x) ELSE x : x \in {r}} : TRUE

-----------------------------------------------------------------------------
(* Expression grammar *)

RECURSIVE parse_expr(_, _), parse_expr_loop(_, _, _)
RECURSIVE parse_term(_, _), parse_term_loop(_, _, _)
RECURSIVE parse_factor(_, _), parse_list_elements(_, _, _)
RECURSIVE parse_call_expr(_, _, _), parse_call_args(_, _, _)
RECURSIVE parse_list_index(_, _, _), parse_list_index_loop(_, _, _)
RECURSIVE parse_method_call(_, _, _), parse_method_args(_, _, _)

(* a parse_expr that parses the rest of the input as its right operand *)
parse_expr_loop_right_assoc(ts, p, left) ==
    IF IsKind(ts, p, "Plus") \/ IsKind(ts, p, "Minus")
    THEN Try(parse_expr(ts, p + 1), LAMBDA right :
           Ok(right.pos, <<"Binary", left, ts[p + 1], right.val>>))
    ELSE Ok(p, left)

(* the while loop of parse_expr: left is the tree built so far *)
parse_expr_loop(ts, p, left) ==
    IF IsKind(ts, p, "Plus") \/ IsKind(ts, p, "Minus")
    THEN Try(parse_term(ts, p + 1), LAMBDA right :
           parse_expr_loop(ts, right.pos, <<"Binary", left, ts[p + 1], right.val>>))
    ELSE Ok(p, left)

parse_expr(ts, p) ==
    Try(parse_term(ts, p), LAMBDA left : parse_expr_loop(ts, left.pos, left.val))

(* the while loop of parse_term *)
parse_term_loop(ts, p, left) ==
    IF IsKind(ts, p, "Multiply") \/ IsKind(ts, p, "Divide")
    THEN Try(parse_factor(ts, p + 1), LAMBDA right :
           parse_term_loop(ts, right.pos, <<"Binary", left, ts[p + 1], right.val>>))
    ELSE Ok(p, left)

parse_term(ts, p) ==
    Try(parse_factor(ts, p), LAMBDA left : parse_term_loop(ts, left.pos, left.val))

(* the element loop of a list literal; p is on the first token of an element *)
parse_list_elements(ts, p, elements) ==
    Try(parse_expr(ts, p), LAMBDA e :
      IF check(ts, e.pos, T("Comma"))
      THEN parse_list_elements(ts, e.pos + 1, Append(elements, e.val))
      ELSE Ok(e.pos, Append(elements, e.val)))

parse_factor(ts, p) ==
    IF p >= Len(ts) THEN Err(p, UnexpectedToken(Integer(0), None))
    ELSE
      CASE ts[p + 1].k \in {"Integer", "Float", "String", "Boolean"} ->
             Ok(p + 1, <<"Literal", token_to_literal(ts[p + 1])>>)
        [] ts[p + 1].k = "Identifier" ->
             IF check(ts, p + 1, T("LParen"))
             THEN parse_call_expr(ts, p + 1, ts[p + 1].v)
             ELSE IF check(ts, p + 1, T("LBracket"))
             THEN parse_list_index(ts, p + 1, ts[p + 1].v)
             ELSE IF check(ts, p + 1, T("Dot"))
             THEN parse_method_call(ts, p + 1, ts[p + 1].v)
             ELSE Ok(p + 1, <<"Variable", ts[p + 1].v>>)
        [] ts[p + 1].k = "LParen" ->
             Try(eat(ts, p, T("LParen")), LAMBDA o :
             Try(parse_expr(ts, o.pos), LAMBDA expr :
             Try(eat(ts, expr.pos, T("RParen")), LAMBDA c :
               Ok(c.pos, <<"Grouping", expr.val>>))))
        [] ts[p + 1].k = "LBracket" ->
             Try(eat(ts, p, T("LBracket")), LAMBDA o :
             Try(IF ~check(ts, o.pos, T("RBracket"))
                 THEN parse_list_elements(ts, o.pos, <<>>)
                 ELSE Ok(o.pos, <<>>), LAMBDA elements :
             Try(eat(ts, elements.pos, T("RBracket")), LAMBDA c :
               Ok(c.pos, <<"List", elements.val>>))))
        [] ts[p + 1].k = "Minus" ->
             Try(eat(ts, p, T("Minus")), LAMBDA o :
             Try(parse_factor(ts, o.pos), LAMBDA right :
               Ok(right.pos, <<"Unary", T("Minus"), right.val>>)))
        [] OTHER -> Err(p, UnexpectedToken(T("Unknown"), Some(ts[p + 1])))

(* the argument loop of parse_call_expr *)
parse_call_args(ts, p, arguments) ==
    Try(parse_expr(ts, p), LAMBDA a :
      IF IsKind(ts, a.pos, "Comma")
      THEN parse_call_args(ts, a.pos + 1, Append(arguments, a.val))
      ELSE Ok(a.pos, Append(arguments, a.val)))

parse_call_expr(ts, p, name) ==
    Try(eat(ts, p, T("LParen")), LAMBDA o :
    Try(IF current_token(ts, o.pos) # Some(T("RParen"))
        THEN parse_call_args(ts, o.pos, <<>>)
        ELSE Ok(o.pos, <<>>), LAMBDA arguments :
    Try(eat(ts, arguments.pos, T("RParen")), LAMBDA c :
      Ok(c.pos, <<"Call", <<"Variable", name>>, T("RParen"), arguments.val>>))))

(* a parse_list_index that indexes the variable again at every suffix *)
parse_list_index_loop_rebase(ts, p, current_expr) ==
    IF check(ts, p, T("LBracket"))
    THEN Try(eat(ts, p, T("LBracket")), LAMBDA o :
         Try(parse_expr(ts, o.pos), LAMBDA index_expr :
         Try(eat(ts, index_expr.pos, T("RBracket")), LAMBDA c :
           parse_list_index_loop(ts, c.pos,
               <<"Index", IF current_expr[1] = "Index" THEN current_expr[2]
                          ELSE current_expr, index_expr.val>>))))
    ELSE Ok(p, current_expr)

(* the while loop of parse_list_index *)
parse_list_index_loop(ts, p, current_expr) ==
    IF check(ts, p, T("LBracket"))
    THEN Try(eat(ts, p, T("LBracket")), LAMBDA o :
         Try(parse_expr(ts, o.pos), LAMBDA index_expr :
         Try(eat(ts, index_expr.pos, T("RBracket")), LAMBDA c :
           parse_list_index_loop(ts, c.pos, <<"Index", current_expr, index_expr.val>>))))
    ELSE Ok(p, current_expr)

parse_list_index(ts, p, list_name) ==
    parse_list_index_loop(ts, p, <<"Variable", list_name>>)

(* the argument loop of parse_method_call *)
parse_method_args(ts, p, args) ==
    Try(parse_expr(ts, p), LAMBDA a :
      IF IsKind(ts, a.pos, "Comma")
      THEN Try(eat(ts, a.pos, T("Comma")), LAMBDA c :
             parse_method_args(ts, c.pos, Append(args, a.val)))
      ELSE Ok(a.pos, Append(args, a.val)))

parse_method_call(ts, p, var_name) ==
    Try(eat(ts, p, T("Dot")), LAMBDA d :
      IF ~IsKind(ts, d.pos, "Identifier")
      THEN Err(d.pos, UnexpectedToken(Identifier("method name"), current_token(ts, d.pos)))
      ELSE
        Try(eat(ts, d.pos + 1, T("LParen")), LAMBDA o :
        Try(IF ~check(ts, o.pos, T("RParen"))
            THEN parse_method_args(ts, o.pos, <<>>)
            ELSE Ok(o.pos, <<>>), LAMBDA args :
        Try(eat(ts, args.pos, T("RParen")), LAMBDA c :
          Ok(c.pos, <<"MethodCall", <<"Variable", var_name>>, ts[d.pos + 1].v,
                      args.val>>)))))

RECURSIVE parse_logic_or_loop(_, _, _), parse_logic_and_loop(_, _, _)

IsComparison(tk) ==
    tk.k \in {"Equals", "NotEquals", "Greater", "Lesser", "GreaterEquals", "LesserEquals"}

RECURSIVE parse_comparison(_, _)

(* a parse_comparison that takes a further comparison as its right operand *)
parse_comparison_chained(ts, p) ==
    Try(parse_expr(ts, p), LAMBDA left :
      IF left.pos < Len(ts) /\ IsComparison(ts[left.pos + 1])
      THEN Try(parse_comparison(ts, left.pos + 1), LAMBDA right :
             Ok(right.pos, <<"Binary", left.val, ts[left.pos + 1], right.val>>))
      ELSE left)

parse_comparison(ts, p) ==
    Try(parse_expr(ts, p), LAMBDA left :
      IF left.pos < Len(ts) /\ IsComparison(ts[left.pos + 1])
      THEN Try(parse_expr(ts, left.pos + 1), LAMBDA right :
             Ok(right.pos, <<"Binary", left.val, ts[left.pos + 1], right.val>>))
      ELSE left)

(* the while loop of parse_logic_and *)
parse_logic_and_loop(ts, p, left) ==
    IF check(ts, p, T("And"))
    THEN Try(parse_comparison(ts, p + 1), LAMBDA right :
           parse_logic_and_loop(ts, right.pos, <<"Logical", left, ts[p + 1], right.val>>))
    ELSE Ok(p, left)

parse_logic_and(ts, p) ==
    Try(parse_comparison(ts, p), LAMBDA left :
      parse_logic_and_loop(ts, left.pos, left.val))

(* the while loop of parse_logic_or *)
parse_logic_or_loop(ts, p, left) ==
    IF check(ts, p, T("Or"))
    THEN Try(parse_logic_and(ts, p + 1), LAMBDA right :
           parse_logic_or_loop(ts, right.pos, <<"Logical", left, ts[p + 1], right.val>>))
    ELSE Ok(p, left)

parse_logic_or(ts, p) ==
    Try(parse_logic_and(ts, p), LAMBDA left :
      parse_logic_or_loop(ts, left.pos, left.val))

parse_condition(ts, p) == parse_logic_or(ts, p)

-----------------------------------------------------------------------------
(* Statement grammar.  parse_let pushes on Parser.output, so the statement  *)
(* productions thread it: they take it and return [ok, pos, val, out].      *)

SOk(p, v, o) == [ok |-> TRUE, pos |-> p, val |-> v, out |-> o]
SErr(p, e, o) == [ok |-> FALSE, pos |-> p, val |-> e, out |-> o]

(* `?` on the result of an expression-level call made with output o *)
TryS(r, o, K(_)) ==
    CHOOSE y \in {IF x.ok THEN K(x) ELSE SErr(x.pos, x.val, o) : x \in {r}} : TRUE

(* Option::unwrap on None *)
Panic(p, o) == SErr(p, <<"Panic">>, o)

RECURSIVE parse_type(_, _)

parse_type(ts, p) ==
    IF p < Len(ts)
    THEN IF ts[p + 1].k \in {"TypeInt", "TypeString", "TypeBool", "TypeFloat"}
         THEN Ok(p + 1, ts[p + 1])
         ELSE IF ts[p + 1].k = "TypeList"
         THEN Try(eat(ts, p + 1, T("Lesser")), LAMBDA l :
              Try(parse_type(ts, l.pos), LAMBDA inner_type :
              Try(eat(ts, inner_type.pos, T("Greater")), LAMBDA g :
                Ok(g.pos, TypeList(inner_type.val)))))
         ELSE Err(p, UnexpectedToken(T("TypeInt"), Some(ts[p + 1])))
    ELSE Err(p, UnexpectedToken(T("TypeInt"), None))

RECURSIVE check_type_compatibility(_, _)

(* a compatibility check that one compatible element satisfies *)
check_type_compatibility_any_element(expected, value) ==
    CASE expected.k = "TypeInt"    /\ value.k = "Integer" -> TRUE
      [] expected.k = "TypeString" /\ value.k = "String"  -> TRUE
      [] expected.k = "TypeBool"   /\ value.k = "Boolean" -> TRUE
      [] expected.k = "TypeFloat"  /\ value.k = "Float"   -> TRUE
      [] expected.k = "TypeList"   /\ value.k = "List"    ->
           \/ value.v = <<>>
           \/ \E n \in 1..Len(value.v) : check_type_compatibility(expected.v, value.v[n])
      [] OTHER -> FALSE

check_type_compatibility(expected, value) ==
    CASE expected.k = "TypeInt"    /\ value.k = "Integer" -> TRUE
      [] expected.k = "TypeString" /\ value.k = "String"  -> TRUE
      [] expected.k = "TypeBool"   /\ value.k = "Boolean" -> TRUE
      [] expected.k = "TypeFloat"  /\ value.k = "Float"   -> TRUE
      [] expected.k = "TypeList"   /\ value.k = "List"    ->
           \/ value.v = <<>>
           \/ \A n \in 1..Len(value.v) : check_type_compatibility(expected.v, value.v[n])
      [] OTHER -> FALSE

parse_let(ts, p, out) ==
    TryS(eat(ts, p, T("Let")), out, LAMBDA l :
      IF ~IsKind(ts, l.pos, "Identifier")
      THEN SErr(l.pos, UnexpectedToken(Identifier("name"), current_token(ts, l.pos)), out)
      ELSE
        TryS(eat(ts, l.pos + 1, T("Colon")), out, LAMBDA c :
        TryS(parse_type(ts, c.pos), out, LAMBDA declared_type :
        TryS(eat(ts, declared_type.pos, T("Assign")),
             Append(out, <<"type", declared_type.val>>), LAMBDA a :
        TryS(parse_expr(ts, a.pos),
             Append(out, <<"type", declared_type.val>>), LAMBDA value_expr :
          SOk(value_expr.pos,
              <<"Let", ts[l.pos + 1].v, declared_type.val, value_expr.val>>,
              Append(out, <<"type", declared_type.val>>)))))))

parse_print(ts, p, out) ==
    TryS(eat(ts, p, T("Print")), out, LAMBDA k :
    TryS(parse_expr(ts, k.pos), out, LAMBDA value :
      SOk(value.pos, <<"Print", value.val>>, out)))

parse_return(ts, p, out) ==
    IF p >= Len(ts) THEN Panic(p, out)
    ELSE
      TryS(eat(ts, p, T("Return")), out, LAMBDA k :
        IF ~check(ts, k.pos, T("EndOfCondition")) /\ ~check(ts, k.pos, T("Else"))
           /\ current_token(ts, k.pos) # None
        THEN TryS(parse_expr(ts, k.pos), out, LAMBDA value :
               SOk(value.pos, <<"Return", ts[p + 1], Some(value.val)>>, out))
        ELSE SOk(k.pos, <<"Return", ts[p + 1], None>>, out))

RECURSIVE parse_statement(_, _, _), parse_block(_, _, _), parse_block_loop(_, _, _, _)
RECURSIVE parse_if(_, _, _), parse_while(_, _, _), parse_for(_, _, _), parse_fn(_, _, _)
RECURSIVE parse_fn_params(_, _, _), parse_statement_indices(_, _, _)

(* a parse_block that steps over the token that ends the block *)
parse_block_loop_eats_end(ts, p, out, statements) ==
    IF p < Len(ts) /\ ts[p + 1].k \notin {"EndOfCondition", "Else", "EOF"}
    THEN Try(parse_statement(ts, p, out), LAMBDA s :
           parse_block_loop(ts, s.pos, s.out, Append(statements, s.val)))
    ELSE SOk(IF p < Len(ts) THEN p + 1 ELSE p, statements, out)

(* the while loop of parse_block *)
parse_block_loop(ts, p, out, statements) ==
    IF p < Len(ts) /\ ts[p + 1].k \notin {"EndOfCondition", "Else", "EOF"}
    THEN Try(parse_statement(ts, p, out), LAMBDA s :
           parse_block_loop(ts, s.pos, s.out, Append(statements, s.val)))
    ELSE SOk(p, statements, out)

parse_block(ts, p, out) == parse_block_loop(ts, p, out, <<>>)

(* step 3 of parse_if: the optional else block, after the then block b *)
parse_if_else(ts, b) ==
    IF IsKind(ts, b.pos, "Else")
    THEN TryS(eat(ts, b.pos, T("Else")), b.out, LAMBDA e :
         Try(parse_block(ts, e.pos, b.out), LAMBDA else_stmts :
           SOk(else_stmts.pos, Some(<<"Block", else_stmts.val>>), else_stmts.out)))
    ELSE SOk(b.pos, None, b.out)

(* a parse_if that does not ask for the terminator of its block *)
parse_if_no_terminator(ts, p, out) ==
    TryS(eat(ts, p, T("If")), out, LAMBDA k :
    TryS(parse_condition(ts, k.pos), out, LAMBDA condition :
    Try(parse_block(ts, condition.pos, out), LAMBDA then_stmts :
    Try(parse_if_else(ts, then_stmts), LAMBDA else_branch :
    TryS(IF else_branch.pos < Len(ts)
         THEN eat(ts, else_branch.pos, T("EndOfCondition"))
         ELSE Ok(else_branch.pos, Unit), else_branch.out, LAMBDA e :
      SOk(e.pos, <<"If", condition.val, <<"Block", then_stmts.val>>, else_branch.val>>,
          else_branch.out))))))

parse_if(ts, p, out) ==
    TryS(eat(ts, p, T("If")), out, LAMBDA k :
    TryS(parse_condition(ts, k.pos), out, LAMBDA condition :
    Try(parse_block(ts, condition.pos, out), LAMBDA then_stmts :
    Try(parse_if_else(ts, then_stmts), LAMBDA else_branch :
    TryS(eat(ts, else_branch.pos, T("EndOfCondition")), else_branch.out, LAMBDA e :
      SOk(e.pos, <<"If", condition.val, <<"Block", then_stmts.val>>, else_branch.val>>,
          else_branch.out))))))

parse_while(ts, p, out) ==
    TryS(eat(ts, p, T("While")), out, LAMBDA k :
    TryS(parse_condition(ts, k.pos), out, LAMBDA condition :
    Try(parse_block(ts, condition.pos, out), LAMBDA body_stmts :
    TryS(eat(ts, body_stmts.pos, T("EndOfCondition")), body_stmts.out, LAMBDA e :
      SOk(e.pos, <<"While", condition.val, <<"Block", body_stmts.val>> >>,
          body_stmts.out)))))

(* a parse_for that asks for the terminator of its block *)
parse_for_with_terminator(ts, p, out) ==
    TryS(eat(ts, p, T("For")), out, LAMBDA k :
      IF ~IsKind(ts, k.pos, "TypeInt")
      THEN SErr(k.pos, UnexpectedToken(T("TypeInt"), current_token(ts, k.pos)), out)
      ELSE
      TryS(eat(ts, k.pos, T("TypeInt")), out, LAMBDA t :
        IF ~IsKind(ts, t.pos, "Identifier")
        THEN SErr(t.pos, UnexpectedToken(Identifier("variable"), current_token(ts, t.pos)),
                  out)
        ELSE
        TryS(eat(ts, t.pos + 1, T("Assign")), out, LAMBDA a :
        TryS(parse_expr(ts, a.pos), out, LAMBDA start_value :
        TryS(eat(ts, start_value.pos, T("Range")), out, LAMBDA r :
        TryS(parse_expr(ts, r.pos), out, LAMBDA end_value :
        Try(parse_block(ts, end_value.pos, out), LAMBDA body_stmts :
        TryS(eat(ts, body_stmts.pos, T("EndOfCondition")), body_stmts.out, LAMBDA e :
          SOk(e.pos,
              <<"For", ts[t.pos + 1].v, start_value.val, end_value.val,
                <<"Block", body_stmts.val>> >>,
              body_stmts.out)))))))))

parse_for(ts, p, out) ==
    TryS(eat(ts, p, T("For")), out, LAMBDA k :
      IF ~IsKind(ts, k.pos, "TypeInt")
      THEN SErr(k.pos, UnexpectedToken(T("TypeInt"), current_token(ts, k.pos)), out)
      ELSE
      TryS(eat(ts, k.pos, T("TypeInt")), out, LAMBDA t :
        IF ~IsKind(ts, t.pos, "Identifier")
        THEN SErr(t.pos, UnexpectedToken(Identifier("variable"), current_token(ts, t.pos)),
                  out)
        ELSE
        TryS(eat(ts, t.pos + 1, T("Assign")), out, LAMBDA a :
        TryS(parse_expr(ts, a.pos), out, LAMBDA start_value :
        TryS(eat(ts, start_value.pos, T("Range")), out, LAMBDA r :
        TryS(parse_expr(ts, r.pos), out, LAMBDA end_value :
        Try(parse_block(ts, end_value.pos, out), LAMBDA body_stmts :
          SOk(body_stmts.pos,
              <<"For", ts[t.pos + 1].v, start_value.val, end_value.val,
                <<"Block", body_stmts.val>> >>,
              body_stmts.out))))))))

(* the parameter loop of parse_fn; p is on the first token of a parameter *)
parse_fn_params(ts, p, params) ==
    IF ~IsKind(ts, p, "Identifier")
    THEN Err(p, UnexpectedToken(Identifier("param name"), current_token(ts, p)))
    ELSE
      Try(eat(ts, p + 1, T("Colon")), LAMBDA c :
      Try(parse_type(ts, c.pos), LAMBDA param_type :
        IF IsKind(ts, param_type.pos, "Comma")
        THEN parse_fn_params(ts, param_type.pos + 1,
                             Append(params, <<ts[p + 1].v, param_type.val>>))
        ELSE Ok(param_type.pos, Append(params, <<ts[p + 1].v, param_type.val>>))))

parse_fn(ts, p, out) ==
    TryS(eat(ts, p, T("Func")), out, LAMBDA k :
      IF ~IsKind(ts, k.pos, "Identifier")
      THEN SErr(k.pos, UnexpectedToken(Identifier("function name"),
                                       current_token(ts, k.pos)), out)
      ELSE
      TryS(eat(ts, k.pos + 1, T("LParen")), out, LAMBDA o :
      TryS(IF ~check(ts, o.pos, T("RParen"))
           THEN parse_fn_params(ts, o.pos, <<>>)
           ELSE Ok(o.pos, <<>>), out, LAMBDA params :
      TryS(eat(ts, params.pos, T("RParen")), out, LAMBDA c :
      Try(parse_block(ts, c.pos, out), LAMBDA body :
      TryS(eat(ts, body.pos, T("EndOfCondition")), body.out, LAMBDA e :
        SOk(e.pos, <<"Func", ts[k.pos + 1].v, params.val, body.val>>, body.out)))))))

(* the index-collecting loop of parse_statement's identifier case *)
parse_statement_indices(ts, p, indices) ==
    IF check(ts, p, T("LBracket"))
    THEN Try(eat(ts, p, T("LBracket")), LAMBDA o :
         Try(parse_expr(ts, o.pos), LAMBDA idx :
         Try(eat(ts, idx.pos, T("RBracket")), LAMBDA c :
           parse_statement_indices(ts, c.pos, Append(indices, idx.val)))))
    ELSE Ok(p, indices)

RECURSIVE index_fold(_, _, _)

(* the for loop rebuilding the Index tree from the collected indices *)
index_fold(expr, indices, n) ==
    IF n > Len(indices) THEN expr
    ELSE index_fold(<<"Index", expr, indices[n]>>, indices, n + 1)

(* an identifier case that returns a lone identifier without consuming it *)
parse_statement_identifier_peeks(ts, p, out, name) ==
    IF check(ts, p, T("Assign"))
    THEN TryS(eat(ts, p, T("Assign")), out, LAMBDA a :
         TryS(parse_expr(ts, a.pos), out, LAMBDA value :
           SOk(value.pos, <<"Expression", <<"Assign", name, value.val>> >>, out)))
    ELSE IF check(ts, p, T("LBracket"))
    THEN TryS(parse_statement_indices(ts, p, <<>>), out, LAMBDA indices :
           IF check(ts, indices.pos, T("Assign"))
           THEN TryS(eat(ts, indices.pos, T("Assign")), out, LAMBDA a :
                TryS(parse_expr(ts, a.pos), out, LAMBDA value :
                  SOk(value.pos, <<"ListAssign", name, indices.val, value.val>>, out)))
           ELSE SOk(indices.pos,
                    <<"Expression", index_fold(<<"Variable", name>>, indices.val, 1)>>,
                    out))
    ELSE IF check(ts, p, T("Dot"))
    THEN TryS(parse_method_call(ts, p, name), out, LAMBDA expr :
           SOk(expr.pos, <<"Expression", expr.val>>, out))
    ELSE IF check(ts, p, T("LParen"))
    THEN TryS(parse_call_expr(ts, p, name), out, LAMBDA expr :
           SOk(expr.pos, <<"Expression", expr.val>>, out))
    ELSE SOk(p - 1, <<"Expression", <<"Variable", name>> >>, out)

(* parse_statement's identifier case; p is the cursor after the identifier *)
parse_statement_identifier(ts, p, out, name) ==
    IF check(ts, p, T("Assign"))
    THEN TryS(eat(ts, p, T("Assign")), out, LAMBDA a :
         TryS(parse_expr(ts, a.pos), out, LAMBDA value :
           SOk(value.pos, <<"Expression", <<"Assign", name, value.val>> >>, out)))
    ELSE IF check(ts, p, T("LBracket"))
    THEN TryS(parse_statement_indices(ts, p, <<>>), out, LAMBDA indices :
           IF check(ts, indices.pos, T("Assign"))
           THEN TryS(eat(ts, indices.pos, T("Assign")), out, LAMBDA a :
                TryS(parse_expr(ts, a.pos), out, LAMBDA value :
                  SOk(value.pos, <<"ListAssign", name, indices.val, value.val>>, out)))
           ELSE SOk(indices.pos,
                    <<"Expression", index_fold(<<"Variable", name>>, indices.val, 1)>>,
                    out))
    ELSE IF check(ts, p, T("Dot"))
    THEN TryS(parse_method_call(ts, p, name), out, LAMBDA expr :
           SOk(expr.pos, <<"Expression", expr.val>>, out))
    ELSE IF check(ts, p, T("LParen"))
    THEN TryS(parse_call_expr(ts, p, name), out, LAMBDA expr :
           SOk(expr.pos, <<"Expression", expr.val>>, out))
    ELSE SOk(p, <<"Expression", <<"Variable", name>> >>, out)

parse_statement(ts, p, out) ==
    IF p >= Len(ts) THEN SErr(p, UnexpectedToken(T("Unknown"), None), out)
    ELSE
      CASE ts[p + 1].k = "Let"    -> parse_let(ts, p, out)
        [] ts[p + 1].k = "Print"  -> parse_print(ts, p, out)
        [] ts[p + 1].k = "If"     -> parse_if(ts, p, out)
        [] ts[p + 1].k = "While"  -> parse_while(ts, p, out)
        [] ts[p + 1].k = "For"    -> parse_for(ts, p, out)
        [] ts[p + 1].k = "Func"   -> parse_fn(ts, p, out)
        [] ts[p + 1].k = "Return" -> parse_return(ts, p, out)
        [] ts[p + 1].k = "Identifier" ->
             parse_statement_identifier(ts, p + 1, out, ts[p + 1].v)
        [] OTHER -> SErr(p, UnexpectedToken(T("Unknown"), Some(ts[p + 1])), out)

-----------------------------------------------------------------------------
(* Scope stack: a sequence of maps from names to value tokens *)

EmptyMap == [n \in {} |-> T("Unknown")]

Insert(m, name, value) ==
    [n \in DOMAIN m \cup {name} |-> IF n = name THEN value ELSE m[n]]

(* a parser constructed without the global scope *)
new_scopes_without_global == <<>>

new_scopes == <<EmptyMap>>

(* scopes.last_mut().unwrap().insert(name, value): unwrap panics on an empty
   stack, before anything is written *)
define_variable(sc, name, value) ==
    IF sc = <<>> THEN [ok |-> FALSE, scopes |-> sc, val |-> <<"Panic">>]
    ELSE [ok |-> TRUE, scopes |-> [sc EXCEPT ![Len(sc)] = Insert(@, name, value)],
          val |-> Unit]

RECURSIVE assign_variable_from(_, _, _, _)

(* the loop of assign_variable over scopes.iter_mut().rev(), at scope d *)
assign_variable_from(sc, d, name, value) ==
    IF d = 0 THEN [ok |-> FALSE, scopes |-> sc, val |-> UndeclaredVariable(name)]
    ELSE IF name \in DOMAIN sc[d]
    THEN IF sc[d][name].k = value.k
         THEN [ok |-> TRUE, scopes |-> [sc EXCEPT ![d] = Insert(@, name, value)],
               val |-> Unit]
         ELSE [ok |-> FALSE, scopes |-> sc, val |-> TypeMismatch(sc[d][name], value)]
    ELSE assign_variable_from(sc, d - 1, name, value)

(* an assign_variable that resolves the name from the outermost scope inwards *)
assign_variable_outermost_first(sc, name, value) ==
    LET D == {d \in 1..Len(sc) : name \in DOMAIN sc[d]} IN
    IF D = {} THEN [ok |-> FALSE, scopes |-> sc, val |-> UndeclaredVariable(name)]
    ELSE LET d == CHOOSE d \in D : \A e \in D : d <= e IN
         IF sc[d][name].k = value.k
         THEN [ok |-> TRUE, scopes |-> [sc EXCEPT ![d] = Insert(@, name, value)],
               val |-> Unit]
         ELSE [ok |-> FALSE, scopes |-> sc, val |-> TypeMismatch(sc[d][name], value)]

(* an assign_variable that overwrites without comparing variants *)
assign_variable_unchecked(sc, name, value) ==
    LET D == {d \in 1..Len(sc) : name \in DOMAIN sc[d]} IN
    IF D = {} THEN [ok |-> FALSE, scopes |-> sc, val |-> UndeclaredVariable(name)]
    ELSE LET d == CHOOSE d \in D : \A e \in D : e <= d IN
         IF sc[d][name].k = value.k
         THEN [ok |-> TRUE, scopes |-> [sc EXCEPT ![d] = Insert(@, name, value)],
               val |-> Unit]
         ELSE [ok |-> FALSE, scopes |-> [sc EXCEPT ![d] = Insert(@, name, value)],
               val |-> TypeMismatch(sc[d][name], value)]

assign_variable(sc, name, value) == assign_variable_from(sc, Len(sc), name, value)

RECURSIVE get_variable_from(_, _, _)

(* the loop of get_variable over scopes.iter().rev(), at scope d *)
get_variable_from(sc, d, name) ==
    IF d = 0 THEN None
    ELSE IF name \in DOMAIN sc[d] THEN Some(sc[d][name])
    ELSE get_variable_from(sc, d - 1, name)

get_variable(sc, name) == get_variable_from(sc, Len(sc), name)

-----------------------------------------------------------------------------
(* Lexer.  A character is a Unicode scalar value: a record of its code      *)
(* point cp and of what the standard library's tables say of it,            *)
(* alphabetic (char::is_alphabetic) and numeric (char::is_numeric).  For an *)
(* ASCII character the two follow from the code point, and the lexer model  *)
(* computes them; for any other character they are read from the record.    *)
(* The text is a sequence of characters; a slice of it (an identifier's     *)
(* name, a string literal's value) is such a sequence too.                  *)
(* A Number's payload is the f64 parsed: <<"F64", m, e>> stands for         *)
(* m * 2^e, with m an odd natural number, or zero with e = 0; <<"Inf">> is  *)
(* infinity.  m is written in limbs, see below.                             *)

Char(cp, alphabetic, numeric) ==
    [cp |-> cp, alphabetic |-> alphabetic, numeric |-> numeric]

(* the ASCII characters 32 to 95, in order *)
AsciiTo95 ==
    << " ", "!", "\"", "#", "$", "%", "&", "'", "(", ")", "*", "+", ",", "-", ".", "/",
       "0", "1", "2", "3", "4", "5", "6", "7", "8", "9", ":", ";", "<", "=", ">", "?",
       "@", "A", "B", "C", "D", "E", "F", "G", "H", "I", "J", "K", "L", "M", "N", "O",
       "P", "Q", "R", "S", "T", "U", "V", "W", "X", "Y", "Z", "[", "\\", "]", "^", "_" >>

(* the ASCII characters 97 to 126, in order *)
AsciiFrom97 ==
    << "a", "b", "c", "d", "e", "f", "g", "h", "i", "j", "k", "l", "m", "n", "o",
       "p", "q", "r", "s", "t", "u", "v", "w", "x", "y", "z", "{", "|", "}", "~" >>

(* the code point of an ASCII character written as a one-character string *)
CodePoint(s) ==
    CASE s = "\t" -> 9
      [] s = "\n" -> 10
      [] s = "\f" -> 12
      [] s = "\r" -> 13
      [] \E n \in 1..64 : AsciiTo95[n] = s -> 31 + CHOOSE n \in 1..64 : AsciiTo95[n] = s
      [] OTHER -> 96 + CHOOSE n \in 1..30 : AsciiFrom97[n] = s

AsciiLetters == (65..90) \cup (97..122)
AsciiDigits == 48..57

(* the ASCII character of code point cp *)
AsciiChar(cp) == Char(cp, cp \in AsciiLetters, cp \in AsciiDigits)

(* the ASCII character written s *)
Ascii(s) == AsciiChar(CodePoint(s))

(* the ASCII text written as a sequence of one-character strings *)
Str(ss) == [n \in 1..Len(ss) |-> Ascii(ss[n])]

(* the code points of the characters with the Unicode property White_Space *)
Whitespace ==
    (9..13) \cup {32, 133, 160, 5760} \cup (8192..8202)
    \cup {8232, 8233, 8239, 8287, 12288}

is_ascii(c) == c.cp < 128
is_whitespace(c) == c.cp \in Whitespace
is_alphabetic(c) == IF is_ascii(c) THEN c.cp \in AsciiLetters ELSE c.alphabetic
is_ascii_digit(c) == c.cp \in AsciiDigits
is_numeric(c) == IF is_ascii(c) THEN c.cp \in AsciiDigits ELSE c.numeric
is_alphanumeric(c) == is_alphabetic(c) \/ is_numeric(c)

(* the characters the lexer compares with: '_', '.' and '"' *)
Underscore == CodePoint("_")
Point == CodePoint(".")
Quote == CodePoint("\"")

(* the code points of a slice *)
as_str(slice) == [n \in 1..Len(slice) |-> slice[n].cp]

DigitValue(c) == c.cp - 48

(* chars[start..end] *)
Slice(cs, start, end) == SubSeq(cs, start + 1, end)

ContinuesIdent(c) == is_alphanumeric(c) \/ c.cp = Underscore
ContinuesDigits(c) == is_ascii_digit(c) \/ c.cp = Point

(* where i stops, from j:
   while i < chars.len() && (chars[i].is_alphanumeric() || chars[i] == '_') *)
IdentEnd(cs, j) ==
    CHOOSE e \in j..Len(cs) :
        /\ \A n \in (j + 1)..e : ContinuesIdent(cs[n])
        /\ e = Len(cs) \/ ~ContinuesIdent(cs[e + 1])

(* while i < chars.len() && (chars[i].is_ascii_digit() || chars[i] == '.') *)
NumberEnd(cs, j) ==
    CHOOSE e \in j..Len(cs) :
        /\ \A n \in (j + 1)..e : ContinuesDigits(cs[n])
        /\ e = Len(cs) \/ ~ContinuesDigits(cs[e + 1])

(* while i < chars.len() && chars[i] != '"' *)
StringEnd(cs, j) ==
    CHOOSE e \in j..Len(cs) :
        /\ \A n \in (j + 1)..e : cs[n].cp # Quote
        /\ e = Len(cs) \/ cs[e + 1].cp = Quote

(* match slice.as_str() *)
Keywords ==
    << <<as_str(Str(<<"l", "e", "t">>)), T("Let")>>,
       <<as_str(Str(<<"i", "n", "t">>)), T("TypeNumber")>>,
       <<as_str(Str(<<"b", "o", "o", "l">>)), T("TypeBool")>>,
       <<as_str(Str(<<"s", "t", "r", "i", "n", "g">>)), T("TypeString")>>,
       <<as_str(Str(<<"p", "r", "i", "n", "t">>)), T("Print")>>,
       <<as_str(Str(<<"t", "r", "u", "e">>)), Boolean(TRUE)>>,
       <<as_str(Str(<<"f", "a", "l", "s", "e">>)), Boolean(FALSE)>> >>

Keyword(slice) ==
    LET K == {n \in 1..Len(Keywords) : Keywords[n][1] = as_str(slice)} IN
    IF K = {} THEN Identifier(slice) ELSE Keywords[CHOOSE n \in K : TRUE][2]

(* f64.  A natural number of any size is a sequence of limbs, digits in     *)
(* base 2^15, the least significant first and the last one not zero; zero   *)
(* is the empty sequence.  A loop over a range is written by halving the    *)
(* range: the first half, then the second half from where the first ended.  *)

Limb == 32768

(* v is evaluated once and handed to K *)
With(v, K(_)) == CHOOSE y \in {K(held) : held \in {v}} : TRUE

RECURSIVE BigMulAddOver(_, _, _, _, _), BigSubOver(_, _, _, _, _)
RECURSIVE BigFromDigitsOver(_, _, _, _), BigTimes10(_, _), BigDivBits(_, _, _, _)

BigTrim(a) ==
    LET N == {n \in 1..Len(a) : a[n] # 0} IN
    IF N = {} THEN <<>>
    ELSE SubSeq(a, 1, CHOOSE n \in N : \A m \in N : m <= n)

(* st = <<carry, out>>: the limbs lo..hi of a, each times k plus the carry *)
BigMulAddOver(a, k, st, lo, hi) ==
    IF lo > hi THEN st
    ELSE IF lo = hi
    THEN With(a[lo] * k + st[1], LAMBDA t : <<t \div Limb, Append(st[2], t % Limb)>>)
    ELSE With(BigMulAddOver(a, k, st, lo, (lo + hi) \div 2), LAMBDA s :
           BigMulAddOver(a, k, s, (lo + hi) \div 2 + 1, hi))

(* a * k + c, for k and c below 2^15 *)
BigMulAdd(a, k, c) ==
    With(BigMulAddOver(a, k, <<c, <<>>>>, 1, Len(a)), LAMBDA s :
      BigTrim(Append(s[2], s[1])))

(* st = <<borrow, out>>: the limbs lo..hi of a, each minus that of b and the borrow *)
BigSubOver(a, b, st, lo, hi) ==
    IF lo > hi THEN st
    ELSE IF lo = hi
    THEN With(a[lo] - (IF lo <= Len(b) THEN b[lo] ELSE 0) - st[1], LAMBDA t :
           <<IF t < 0 THEN 1 ELSE 0, Append(st[2], t % Limb)>>)
    ELSE With(BigSubOver(a, b, st, lo, (lo + hi) \div 2), LAMBDA s :
           BigSubOver(a, b, s, (lo + hi) \div 2 + 1, hi))

(* a - b, for a >= b *)
BigSub(a, b) == BigTrim(BigSubOver(a, b, <<0, <<>>>>, 1, Len(a))[2])

(* -1, 0 or 1 as a is below, equal to or above b *)
BigCmp(a, b) ==
    IF Len(a) # Len(b) THEN IF Len(a) < Len(b) THEN -1 ELSE 1
    ELSE LET D == {n \in 1..Len(a) : a[n] # b[n]} IN
         IF D = {} THEN 0
         ELSE LET n == CHOOSE n \in D : \A m \in D : m <= n IN
              IF a[n] < b[n] THEN -1 ELSE 1

(* the number of binary digits of a *)
BigBits(a) ==
    IF a = <<>> THEN 0
    ELSE 15 * (Len(a) - 1)
         + CHOOSE b \in 1..15 : 2^(b - 1) <= a[Len(a)] /\ a[Len(a)] < 2^b

(* a * 2^n *)
BigShl(a, n) ==
    IF a = <<>> THEN a
    ELSE [j \in 1..(n \div 15) |-> 0] \o BigMulAdd(a, 2^(n % 15), 0)

(* a \div 2^n *)
BigShr(a, n) ==
    LET w == n \div 15
        s == n % 15
    IN  BigTrim([j \in 1..(Len(a) - w) |->
                   (a[j + w] \div 2^s)
                   + (IF j + w < Len(a) THEN (a[j + w + 1] % 2^s) * 2^(15 - s) ELSE 0)])

(* the number of binary digits 0 that a > 0 ends with *)
BigTrailingZeros(a) ==
    LET n == CHOOSE n \in 1..Len(a) : a[n] # 0 /\ \A m \in 1..(n - 1) : a[m] = 0
    IN  15 * (n - 1) + CHOOSE b \in 0..14 : a[n] % 2^b = 0 /\ (a[n] \div 2^b) % 2 = 1

(* the number written by the decimal digits ds[lo..hi] after those of acc *)
BigFromDigitsOver(ds, acc, lo, hi) ==
    IF lo > hi THEN acc
    ELSE IF lo = hi THEN BigMulAdd(acc, 10, ds[lo])
    ELSE With(BigFromDigitsOver(ds, acc, lo, (lo + hi) \div 2), LAMBDA v :
           BigFromDigitsOver(ds, v, (lo + hi) \div 2 + 1, hi))

(* a * 10^n *)
BigTimes10(a, n) ==
    IF n = 0 THEN a
    ELSE IF n = 1 THEN BigMulAdd(a, 10, 0)
    ELSE With(BigTimes10(a, n \div 2), LAMBDA v : BigTimes10(v, n - n \div 2))

(* st = <<q, r>>: long division of r by b, the binary digits hi down to lo
   of the quotient written after those of q, and the remainder *)
BigDivBits(st, b, hi, lo) ==
    IF hi < lo THEN st
    ELSE IF hi = lo
    THEN With(BigShl(b, hi), LAMBDA t :
           IF BigCmp(st[2], t) >= 0
           THEN <<BigMulAdd(st[1], 2, 1), BigSub(st[2], t)>>
           ELSE <<BigMulAdd(st[1], 2, 0), st[2]>>)
    ELSE With(BigDivBits(st, b, hi, (hi + lo) \div 2 + 1), LAMBDA s :
           BigDivBits(s, b, (hi + lo) \div 2, lo))

(* qr = <<q, r>>, quotient and remainder of a division by b: q rounded to
   the nearest, to the even one of two that are as near, times 2^e, with the
   factors 2 of q moved to the exponent *)
F64Round(qr, b, e) ==
    With(BigCmp(BigShl(qr[2], 1), b), LAMBDA half :
    With(IF half > 0 \/ (half = 0 /\ qr[1] # <<>> /\ qr[1][1] % 2 = 1) THEN BigMulAdd(qr[1], 1, 1) ELSE qr[1],
         LAMBDA q :
           IF q = <<>> THEN <<"F64", <<>>, 0>>
           ELSE IF BigBits(q) + e > 1024 THEN <<"Inf">>
           ELSE With(BigTrailingZeros(q), LAMBDA z : <<"F64", BigShr(q, z), e + z>>)))

(* a / (b * 2^e) for e >= 0, (a * 2^-e) / b for e < 0: 53 binary digits of
   quotient, rounded *)
F64Scaled(a, b, e) ==
    With(IF e < 0 THEN BigShl(a, 0 - e) ELSE a, LAMBDA a2 :
    With(IF e > 0 THEN BigShl(b, e) ELSE b, LAMBDA b2 :
    With(BigDivBits(<<<<>>, a2>>, b2, 53, 0), LAMBDA qr :
      F64Round(qr, b2, e))))

(* the binary exponent of the last place of a / b as an f64: that of a
   53-digit quotient, and not below that of the subnormal numbers *)
F64Exponent(a, b) ==
    With(BigBits(a) - BigBits(b) - 53, LAMBDA e :
      IF e < 0 - 1074 THEN 0 - 1074
      ELSE IF BigCmp(IF e < 0 THEN BigShl(a, 0 - e) ELSE a,
                     BigShl(b, 53 + (IF e > 0 THEN e ELSE 0))) >= 0
      THEN e + 1 ELSE e)

(* the f64 nearest to a / b, for b > 0 *)
F64Ratio(a, b) ==
    IF a = <<>> THEN <<"F64", <<>>, 0>>
    ELSE With(F64Exponent(a, b), LAMBDA e : F64Scaled(a, b, e))

(* slice.parse::<f64>() on a run of digits and points that starts with a
   digit: an error on more than one point, else the nearest f64 *)
parse_f64(slice) ==
    LET dots == {n \in 1..Len(slice) : slice[n].cp = Point} IN
    IF Cardinality(dots) > 1 THEN <<"Err">>
    ELSE With(SelectSeq(slice, LAMBDA c : c.cp # Point), LAMBDA digits :
         With([n \in 1..Len(digits) |-> DigitValue(digits[n])], LAMBDA ds :
         With(IF dots = {} THEN 0 ELSE Len(slice) - (CHOOSE d \in dots : TRUE), LAMBDA s :
         With(BigFromDigitsOver(ds, <<>>, 1, Len(ds)), LAMBDA a :
         With(BigTimes10(<<1>>, s), LAMBDA b :
           <<"Ok", F64Ratio(a, b)>>)))))

(* match c *)
Operators ==
    << <<CodePoint("="), T("Assign")>>,
       <<CodePoint("+"), T("Plus")>>,
       <<CodePoint("-"), T("Minus")>>,
       <<CodePoint("*"), T("Multiply")>>,
       <<CodePoint("/"), T("Divide")>>,
       <<CodePoint("("), T("LParen")>>,
       <<CodePoint(")"), T("RParen")>>,
       <<CodePoint("{"), T("LBrace")>>,
       <<CodePoint("}"), T("RBrace")>>,
       <<CodePoint(";"), T("Semicolon")>> >>

OperatorToken(c) ==
    LET O == {n \in 1..Len(Operators) : Operators[n][1] = c.cp} IN
    IF O = {} THEN None ELSE Some(Operators[CHOOSE n \in O : TRUE][2])

Running == lexed = <<"Running">> /\ i < Len(chars)
c0 == chars[i + 1]

LexWhitespace ==
    /\ Running /\ is_whitespace(c0)
    /\ i' = i + 1
    /\ UNCHANGED <<chars, token, lexed>>
    /\ UNCHANGED parserVars

LexIdentifier ==
    /\ Running /\ ~is_whitespace(c0)
    /\ is_alphabetic(c0) \/ c0.cp = Underscore
    /\ LET e == IdentEnd(chars, i + 1) IN
         /\ i' = e
         /\ token' = Append(token, Keyword(Slice(chars, i, e)))
    /\ UNCHANGED <<chars, lexed>>
    /\ UNCHANGED parserVars

LexNumber ==
    /\ Running /\ is_ascii_digit(c0)
    /\ LET e == NumberEnd(chars, i + 1)
           value == parse_f64(Slice(chars, i, e)) IN
         /\ i' = e
         /\ IF value[1] = "Err"
            THEN /\ lexed' = <<"Err", <<"Invalid number", Slice(chars, i, e)>> >>
                 /\ token' = token
            ELSE /\ token' = Append(token, Tok("Number", value[2]))
                 /\ lexed' = lexed
    /\ UNCHANGED chars
    /\ UNCHANGED parserVars

LexString ==
    /\ Running /\ c0.cp = Quote
    /\ LET e == StringEnd(chars, i + 1) IN
         /\ IF e >= Len(chars)
            THEN /\ i' = e
                 /\ lexed' = <<"Err", <<"Unterminated string literal">> >>
                 /\ token' = token
            ELSE /\ i' = e + 1
                 /\ token' = Append(token, String(Slice(chars, i + 1, e)))
                 /\ lexed' = lexed
    /\ UNCHANGED chars
    /\ UNCHANGED parserVars

StartsNoToken(c) ==
    /\ ~is_whitespace(c) /\ ~is_alphabetic(c) /\ c.cp # Underscore
    /\ ~is_ascii_digit(c) /\ c.cp # Quote
    /\ OperatorToken(c) = None

LexOperator ==
    /\ Running /\ ~is_whitespace(c0) /\ ~is_alphabetic(c0) /\ c0.cp # Underscore
    /\ ~is_ascii_digit(c0) /\ c0.cp # Quote
    /\ OperatorToken(c0) # None
    /\ token' = Append(token, OperatorToken(c0)[2])
    /\ i' = i + 1
    /\ UNCHANGED <<chars, lexed>>
    /\ UNCHANGED parserVars

(* a lexer that drops a character it cannot start a token with *)
LexUnexpected_skips_character ==
    /\ Running /\ StartsNoToken(c0)
    /\ i' = i + 1
    /\ UNCHANGED <<chars, token, lexed>>
    /\ UNCHANGED parserVars

LexUnexpected ==
    /\ Running /\ StartsNoToken(c0)
    /\ token' = Append(token, T("EOF"))
    /\ lexed' = <<"Err", <<"Unexpected token starting at index", i>> >>
    /\ UNCHANGED <<chars, i>>
    /\ UNCHANGED parserVars

LexReturn ==
    /\ lexed = <<"Running">> /\ i >= Len(chars)
    /\ lexed' = <<"Ok", token>>
    /\ UNCHANGED <<chars, i, token>>
    /\ UNCHANGED parserVars

-----------------------------------------------------------------------------
(* Inputs of the parser *)

MaxOps == 3
MaxSuffix == 2
MaxBody == 2
MaxLen == 3
MaxNodes == 4
MaxTypeDepth == 2

RECURSIVE Flat(_)
(* the concatenation of a sequence of sequences *)
Flat(ss) == IF ss = <<>> THEN <<>> ELSE Head(ss) \o Flat(Tail(ss))

SeqsUpTo(S, n) == UNION {[1..m -> S] : m \in 0..n}

OperandNames == <<"a", "b", "c", "d", "e", "f", "g", "h">>
ArithOps == {T("Plus"), T("Minus"), T("Multiply"), T("Divide")}
Operand(style, n) == IF style = "int" THEN Integer(n) ELSE Identifier(OperandNames[n])

(* operand (operator operand)^n: the n-th operand is recognisable by its payload *)
ArithInput(style, ops) ==
    [m \in 1..(2 * Len(ops) + 1) |->
        IF m % 2 = 1 THEN Operand(style, (m + 1) \div 2) ELSE ops[m \div 2]]

ArithInputs ==
    {ArithInput(style, ops) : style \in {"int", "id"}, ops \in SeqsUpTo(ArithOps, MaxOps)}

IndexExprs ==
    { <<Integer(0)>>, <<Integer(1)>>, <<Identifier("i")>>,
      <<Identifier("i"), T("Plus"), Integer(1)>>,
      <<Identifier("b"), T("LBracket"), Integer(0), T("RBracket")>> }

(* a [e1] [e2] ... *)
IndexInput(es) ==
    <<Identifier("a")>> \o
    Flat([n \in 1..Len(es) |-> <<T("LBracket")>> \o es[n] \o <<T("RBracket")>>])

IndexChains == SeqsUpTo(IndexExprs, MaxSuffix) \ {<<>>}
IndexInputs == {IndexInput(es) : es \in IndexChains}

BlockHeaders ==
    { <<T("If"), Boolean(TRUE)>>,
      <<T("If"), Identifier("x"), T("Greater"), Integer(1)>>,
      <<T("While"), Boolean(TRUE)>>,
      <<T("Func"), Identifier("f"), T("LParen"), T("RParen")>>,
      <<T("Func"), Identifier("f"), T("LParen"), Identifier("n"), T("Colon"),
        T("TypeInt"), T("RParen")>> }

BodyStmts ==
    { <<T("Print"), Integer(1)>>,
      <<Identifier("x"), T("Assign"), Integer(1)>>,
      <<Identifier("x")>>,
      <<T("If"), Boolean(TRUE), T("Print"), Integer(1), T("EndOfCondition")>>,
      <<T("Return"), Identifier("x")>> }

Bodies == {Flat(b) : b \in SeqsUpTo(BodyStmts, MaxBody)}

(* a block statement whose body runs to the end of the tokens *)
UnterminatedBlocks ==
    {h \o b : h \in BlockHeaders, b \in Bodies}
    \cup {h \o b \o <<T("Return")>> : h \in BlockHeaders, b \in Bodies}
    \cup {<<T("If"), Boolean(TRUE)>> \o b \o <<T("Else")>> \o c :
             b \in Bodies, c \in {<<>>, <<T("Print"), Integer(1)>>}}

TerminatedBlocks == {u \o <<T("EndOfCondition")>> : u \in UnterminatedBlocks}

LetTypes ==
    { <<T("TypeInt")>>, <<T("TypeString")>>,
      <<T("TypeBool")>>,
      <<TypeList(T("Unknown")), T("Lesser"), T("TypeInt"), T("Greater")>>,
      <<TypeList(T("Unknown")), T("Lesser"), TypeList(T("Unknown")), T("Lesser"),
        T("TypeInt"), T("Greater"), T("Greater")>> }

LetInits ==
    { <<Integer(1)>>, <<String("a")>>,
      <<T("LBracket"), T("RBracket")>>,
      <<T("LBracket"), Integer(1), T("RBracket")>>,
      <<T("LBracket"), Integer(1), T("Comma"), String("a"), T("RBracket")>>,
      <<T("LBracket"), T("LBracket"), Integer(1), T("RBracket"), T("RBracket")>>,
      <<Identifier("x"), T("Greater"), Integer(1), T("And"), Identifier("y")>>,
      <<Integer(1), T("Plus"), Integer(2)>> }

LetInput(ty, init) ==
    <<T("Let"), Identifier("xs"), T("Colon")>> \o ty \o <<T("Assign")>> \o init

LetInputs == {LetInput(ty, init) : ty \in LetTypes, init \in LetInits}

BlockEnders == {T("EndOfCondition"), T("Else"), T("EOF")}

Tails == {<<>>, <<T("Print"), Integer(1)>>}

(* the statements of a block, the token that ends it, and what follows *)
BlockBodies ==
    {b \o <<t>> \o rest : b \in Bodies, t \in BlockEnders, rest \in Tails}

ForHeader ==
    <<T("For"), T("TypeInt"), Identifier("i"), T("Assign"), Integer(1), T("Range"),
      Identifier("n"), T("Plus"), Integer(1)>>

ForEndings == {<<>>} \cup {<<t>> \o rest : t \in BlockEnders, rest \in Tails}

ForInputs == {ForHeader \o b \o e : b \in Bodies, e \in ForEndings}

(* for without the integer type marker, without a name, without a range *)
BadForInputs ==
    { <<T("For"), Identifier("i"), T("Assign"), Integer(1), T("Range"), Integer(3)>>,
      <<T("For"), T("TypeString"), Identifier("i"), T("Assign"), Integer(1), T("Range"),
        Integer(3)>>,
      <<T("For")>>,
      <<T("For"), T("TypeInt"), Integer(1)>>,
      <<T("For"), T("TypeInt"), Identifier("i"), T("Assign"), Integer(1), Integer(3)>> }

ReturnRests ==
    { <<>>, <<T("EndOfCondition")>>, <<T("Else")>>, <<T("EOF")>>,
      <<T("EndOfCondition"), T("Print"), Integer(1)>>,
      <<Integer(1)>>, <<Identifier("x"), T("Plus"), Integer(1)>>,
      <<Identifier("x"), T("EndOfCondition")>>, <<Integer(1), T("EOF")>>,
      <<T("Print"), Integer(1)>>, <<T("Return")>>, <<T("Plus")>> }

ReturnInputs == {<<T("Return")>> \o r : r \in ReturnRests}

ComparisonOps ==
    { T("Equals"), T("NotEquals"), T("Greater"), T("Lesser"), T("GreaterEquals"),
      T("LesserEquals") }

ComparisonOperands ==
    { <<Identifier("a")>>, <<Integer(1)>>, <<Identifier("a"), T("Plus"), Integer(1)>>,
      <<T("LParen"), Identifier("a"), T("Plus"), Integer(1), T("RParen")>> }

(* x op y and x op y op z *)
ComparisonChains ==
    {<<x, o, y>> : x \in ComparisonOperands, o \in ComparisonOps,
                   y \in ComparisonOperands}
    \cup {<<x, o, y, q, z>> : x \in {<<Identifier("a")>>, <<Integer(1), T("Plus"), Integer(2)>>},
                              o \in ComparisonOps, y \in {<<Identifier("b")>>},
                              q \in ComparisonOps, z \in {<<Identifier("c")>>}}

ComparisonInput(c) ==
    Flat([n \in 1..Len(c) |-> IF n % 2 = 1 THEN c[n] ELSE <<c[n]>>])

ComparisonInputs ==
    {ComparisonInput(c) : c \in ComparisonChains}
    \cup {ComparisonInput(c) \o <<j>> \o ComparisonInput(d) :
             c \in {<<<<Identifier("a")>>, T("Equals"), <<Identifier("b")>> >>,
                    <<<<Identifier("a")>>, T("Lesser"), <<Identifier("b")>>, T("Lesser"),
                      <<Identifier("c")>> >>},
             j \in {T("And"), T("Or")},
             d \in {<<<<Identifier("c")>>, T("Greater"), <<Integer(1)>> >>,
                    <<<<Identifier("c")>> >>}}
    \cup {<<T("LParen"), Identifier("a"), T("Equals"), Identifier("b"), T("RParen"),
            T("Equals"), Identifier("c")>>}

Alphabet ==
    { Identifier("a"), Integer(1), T("Plus"), T("Assign"),
      T("If"), T("EndOfCondition"), T("Return"), T("Else") }

GeneralInputs == SeqsUpTo(Alphabet, MaxLen)

ParserInputs ==
    ArithInputs \cup IndexInputs \cup UnterminatedBlocks \cup TerminatedBlocks
    \cup LetInputs \cup GeneralInputs
    \cup BlockBodies \cup ForInputs \cup BadForInputs \cup ReturnInputs
    \cup ComparisonInputs

EatTokens ==
    { Identifier("a"), Identifier("b"), Integer(1), T("Assign"), T("If") }

RECURSIVE ValuesOfSize(_), ForestsOfSize(_)

ScalarValues == {Integer(1), String("a")}

(* the value tokens made of exactly n scalars and lists *)
ValuesOfSize(n) ==
    (IF n = 1 THEN ScalarValues ELSE {}) \cup {List(f) : f \in ForestsOfSize(n - 1)}

(* the sequences of value tokens of n scalars and lists in all *)
ForestsOfSize(n) ==
    IF n = 0 THEN {<<>>}
    ELSE UNION {{<<v>> \o f : v \in ValuesOfSize(m), f \in ForestsOfSize(n - m)} :
                m \in 1..n}

ValueTokens ==
    UNION {ValuesOfSize(n) : n \in 1..MaxNodes}
    \cup {Boolean(TRUE), Float(<<"F64", <<3>>, -1>>), Identifier("a"),
          List(<<Boolean(TRUE)>>), List(<<Float(<<"F64", <<3>>, -1>>)>>)}

RECURSIVE TypesOfDepth(_)

TypesOfDepth(d) ==
    IF d = 0 THEN {T("TypeInt"), T("TypeString"), T("TypeBool"), T("TypeFloat")}
    ELSE {TypeList(t) : t \in TypesOfDepth(d - 1)}

TypeTokens ==
    UNION {TypesOfDepth(d) : d \in 0..MaxTypeDepth} \cup {T("Unknown"), Integer(1)}

-----------------------------------------------------------------------------
(* The parser as a state machine: Parser::new, then calls of its methods *)

LexerIdle ==
    chars = <<>> /\ i = 0 /\ token = <<>> /\ lexed = <<"Idle">>

NoWatch == <<"None">>

Init ==
    /\ tokens \in ParserInputs
    /\ pos = 0
    /\ output = <<>>
    /\ scopes = new_scopes
    /\ functions = EmptyMap
    /\ call = <<"new", 0>>
    /\ result = [ok |-> TRUE, val |-> <<"New">>]
    /\ watch = NoWatch
    /\ LexerIdle

Fresh == call[1] = "new"

(* a call of an expression-level method: r is what it returns *)
Returns(name, r) ==
    /\ call' = <<name, pos>>
    /\ pos' = r.pos
    /\ result' = [ok |-> r.ok, val |-> r.val]
    /\ UNCHANGED <<tokens, output, scopes, functions, watch>>
    /\ UNCHANGED lexerVars

(* a parse_statement that declares what it parses: a let binds its name in
   the innermost scope and an fn enters the function table *)
ReturnsStmt_declaring(name, r) ==
    /\ call' = <<name, pos>>
    /\ pos' = r.pos
    /\ output' = r.out
    /\ result' = [ok |-> r.ok, val |-> r.val]
    /\ scopes' = IF name = "parse_statement" /\ r.ok /\ r.val[1] = "Let"
                 THEN define_variable(scopes, r.val[2], Integer(1)).scopes
                 ELSE scopes
    /\ functions' = IF name = "parse_statement" /\ r.ok /\ r.val[1] = "Func"
                    THEN Insert(functions, r.val[2], Integer(1))
                    ELSE functions
    /\ UNCHANGED <<tokens, watch>>
    /\ UNCHANGED lexerVars

(* a call of a statement-level method *)
ReturnsStmt(name, r) ==
    /\ call' = <<name, pos>>
    /\ pos' = r.pos
    /\ output' = r.out
    /\ result' = [ok |-> r.ok, val |-> r.val]
    /\ UNCHANGED <<tokens, scopes, functions, watch>>
    /\ UNCHANGED lexerVars

Eat ==
    /\ call[1] \in {"new", "eat"}
    /\ \E expected \in EatTokens :
         LET r == eat(tokens, pos, expected) IN
         /\ call' = <<"eat", pos, expected>>
         /\ pos' = r.pos
         /\ result' = [ok |-> r.ok, val |-> r.val]
    /\ UNCHANGED <<tokens, output, scopes, functions, watch>>
    /\ UNCHANGED lexerVars

ParseExpr == Fresh /\ Returns("parse_expr", parse_expr(tokens, pos))

ParseFactor == Fresh /\ Returns("parse_factor", parse_factor(tokens, pos))

ParseComparison == Fresh /\ Returns("parse_comparison", parse_comparison(tokens, pos))

ParseCondition == Fresh /\ Returns("parse_condition", parse_condition(tokens, pos))

ParseType == Fresh /\ Returns("parse_type", parse_type(tokens, pos))

ParseLet == Fresh /\ ReturnsStmt("parse_let", parse_let(tokens, pos, output))

ParseBlock == Fresh /\ ReturnsStmt("parse_block", parse_block(tokens, pos, output))

ParseReturn == Fresh /\ ReturnsStmt("parse_return", parse_return(tokens, pos, output))

ParseFor == Fresh /\ ReturnsStmt("parse_for", parse_for(tokens, pos, output))

(* the driver: parse_statement again after each success *)
ParseStatement ==
    /\ call[1] \in {"new", "parse_statement"}
    /\ result.ok
    /\ ReturnsStmt("parse_statement", parse_statement(tokens, pos, output))

CheckTypeCompatibility ==
    /\ Fresh /\ tokens = <<>>
    /\ \E expected \in TypeTokens, value \in ValueTokens :
         /\ call' = <<"check_type_compatibility", pos, expected, value>>
         /\ result' = [ok |-> TRUE,
                       val |-> <<"Bool", check_type_compatibility(expected, value)>>]
    /\ UNCHANGED <<tokens, pos, output, scopes, functions, watch>>
    /\ UNCHANGED lexerVars

Next ==
    \/ Eat
    \/ CheckTypeCompatibility
    \/ ParseExpr
    \/ ParseFactor
    \/ ParseComparison
    \/ ParseCondition
    \/ ParseType
    \/ ParseLet
    \/ ParseBlock
    \/ ParseReturn
    \/ ParseFor
    \/ ParseStatement

Spec == Init /\ [][Next]_vars

-----------------------------------------------------------------------------
(* The scope methods called in any order between the calls that parse.  A    *)
(* call holds &mut self from its entry to its return, so none of them falls  *)
(* inside a running parse_block.                                             *)

Names == {"x", "y"}
Values == {Integer(1), Integer(2), String("s")}

InBlockLoop == call[1] = "parse_block_loop"

DefineVariable ==
    /\ ~InBlockLoop
    /\ \E name \in Names, value \in Values :
         LET r == define_variable(scopes, name, value) IN
         /\ scopes' = r.scopes
         /\ result' = [ok |-> r.ok, val |-> r.val]
         /\ call' = <<"define_variable", pos, name, value>>
    /\ UNCHANGED <<tokens, pos, output, functions, watch>>
    /\ UNCHANGED lexerVars

AssignVariable ==
    /\ ~InBlockLoop
    /\ \E name \in Names, value \in Values :
         LET r == assign_variable(scopes, name, value) IN
         /\ scopes' = r.scopes
         /\ result' = [ok |-> r.ok, val |-> r.val]
         /\ call' = <<"assign_variable", pos, name, value>>
    /\ UNCHANGED <<tokens, pos, output, functions, watch>>
    /\ UNCHANGED lexerVars

GetVariable ==
    /\ ~InBlockLoop
    /\ \E name \in Names :
         /\ result' = [ok |-> TRUE, val |-> get_variable(scopes, name)]
         /\ call' = <<"get_variable", pos, name>>
    /\ UNCHANGED <<tokens, pos, output, scopes, functions, watch>>
    /\ UNCHANGED lexerVars

-----------------------------------------------------------------------------
(* The scope methods as functions of the stack they are called on.  They     *)
(* iterate over self.scopes whatever its length, so they are applied to      *)
(* every stack of up to MaxDepth scopes; the parser itself never holds more  *)
(* than the one scope of Parser::new.                                        *)

MaxDepth == 2

ScopeStacks ==
    LET Maps == UNION {[D -> Values] : D \in SUBSET Names}
    IN  UNION {[1..d -> Maps] : d \in 1..MaxDepth}

StackInit ==
    /\ tokens = <<>>
    /\ pos = 0
    /\ output = <<>>
    /\ scopes \in ScopeStacks
    /\ functions = EmptyMap
    /\ call = <<"new", 0>>
    /\ result = [ok |-> TRUE, val |-> <<"New">>]
    /\ watch = NoWatch
    /\ LexerIdle

StackNext ==
    \/ DefineVariable
    \/ AssignVariable
    \/ GetVariable

SpecStack == StackInit /\ [][StackNext]_vars

-----------------------------------------------------------------------------
(* The lexer as a state machine: one step per iteration of its while loop *)

MaxText == 4

TextAlphabet ==
    {Ascii(" "), Ascii("a"), Ascii("1"), Ascii("\""), Ascii("="), Ascii("."),
     Ascii(">"), Ascii("A"), Ascii("\r")}

(* n times the digit 0 *)
Zeros(n) == [k \in 1..n |-> Ascii("0")]

(* The characters outside ASCII in the sample texts, by code point.           *)
(* Whitespace: 133 next line, 160 no-break space, 8232 line separator, 12288 *)
(* ideographic space.  Letters: 170 feminine ordinal, 181 micro sign, 201 E  *)
(* acute, 232 e grave, 233 e acute, 945 alpha, 946 beta, 20013 and 25991     *)
(* (CJK).  Numeric and no letter: 178 superscript two, 188 one quarter, 189  *)
(* one half, 1635 and 1636 Arabic-Indic three and four.  Letter and numeric: *)
(* 8544 and 8545, Roman numerals one and two.  Neither: 215 multiplication   *)
(* sign.                                                                     *)
SampleTexts ==
    { Str(<<"l", "e", "t", " ", "x", " ", ":", " ", "i", "n", "t", " ", "=", " ", "\"", "5">>),
      Str(<<"l", "e", "t", " ", "x", " ", "=", " ", "\"", "5", "\"">>),
      Str(<<"\"", "l", "e", "t", " ", "x", " ", ":", " ", "i", "n", "t", " ", "=", " ", "\"", "5">>),
      Str(<<"p", "r", "i", "n", "t", "(", "t", "r", "u", "e", ")", ";">>),
      Str(<<"b", "o", "o", "l", " ", "s", "t", "r", "i", "n", "g", " ", "f", "a", "l", "s", "e">>),
      Str(<<"{", "a", "_", "1", "+", "2", "-", "3", "*", "4", "/", "1", ".", "5", "0", "}">>),
      Str(<<"a", " ", "=", "=", " ", "b">>),
      Str(<<"a", "!", "=", "b">>),
      Str(<<"a", "<", "=", "b">>),
      Str(<<"0", ".", ".", "5">>),
      Str(<<"_", "a", "\t", "\n", "1">>),
      Str(<<"L", "e", "t", " ", "a", "B", "\f", "Z", "9">>),
      <<Char(12288, FALSE, FALSE), Ascii("a"), Char(160, FALSE, FALSE), AsciiChar(11), Char(133, FALSE, FALSE),
        Char(8232, FALSE, FALSE), Ascii("b")>>,
      <<Char(233, TRUE, FALSE), Char(1635, FALSE, TRUE), Ascii("_"), Char(178, FALSE, TRUE), Ascii(" "),
        Char(20013, TRUE, FALSE), Char(8544, TRUE, TRUE), Char(945, TRUE, FALSE)>>,
      <<Ascii("a"), Char(189, FALSE, TRUE), Ascii("1"), Ascii(".")>>,
      <<Ascii("1"), Char(1635, FALSE, TRUE)>>,
      <<Ascii("a"), Ascii(" "), Char(178, FALSE, TRUE)>>,
      <<Char(8544, TRUE, TRUE), Ascii("1"), Ascii(" "), Ascii("1"), Ascii("."), Ascii("5"),
        Char(8544, TRUE, TRUE)>>,
      <<Ascii("a"), Char(232, TRUE, FALSE), Ascii(" "), Ascii("a"), Char(188, FALSE, TRUE), Ascii(" "),
        Ascii("a"), Char(946, TRUE, FALSE), Ascii(" "), Ascii("a"), Char(1636, FALSE, TRUE)>>,
      <<Char(201, TRUE, FALSE), Ascii(" "), Char(170, TRUE, FALSE), Ascii(" "), Char(181, TRUE, FALSE), Ascii(" "),
        Char(8545, TRUE, TRUE), Ascii(" "), Char(20013, TRUE, FALSE), Char(25991, TRUE, FALSE)>>,
      <<Ascii("a"), Char(215, FALSE, FALSE), Ascii("b")>>,
      <<AsciiChar(96), Ascii("a")>>,
      Str(<<"0", ".", "1", " ", "1", "0", " ", "1", ".", " ", "0", ".", "2", "5", "0">>),
      (* 2^53 + 1 and 2^53 are one f64, 2^53 + 3 is another *)
      Str(<<"9", "0", "0", "7", "1", "9", "9", "2", "5", "4", "7", "4", "0", "9", "9", "3", " ",
            "9", "0", "0", "7", "1", "9", "9", "2", "5", "4", "7", "4", "0", "9", "9", "2", " ",
            "9", "0", "0", "7", "1", "9", "9", "2", "5", "4", "7", "4", "0", "9", "9", "5">>),
      (* below half of the least f64 above zero: zero *)
      Str(<<"0", ".">>) \o Zeros(323) \o Str(<<"1">>),
      (* the least f64 above zero *)
      Str(<<"0", ".">>) \o Zeros(323) \o Str(<<"5">>),
      (* above every finite f64: infinity *)
      Str(<<"2">>) \o Zeros(308) }

Texts == SeqsUpTo(TextAlphabet, MaxText) \cup SampleTexts

LexInit ==
    /\ chars \in Texts
    /\ i = 0
    /\ token = <<>>
    /\ lexed = <<"Running">>
    /\ tokens = <<>>
    /\ pos = 0
    /\ output = <<>>
    /\ scopes = new_scopes
    /\ functions = EmptyMap
    /\ call = <<"new", 0>>
    /\ result = [ok |-> TRUE, val |-> <<"New">>]
    /\ watch = NoWatch

LexNext ==
    \/ LexWhitespace
    \/ LexIdentifier
    \/ LexNumber
    \/ LexString
    \/ LexOperator
    \/ LexUnexpected
    \/ LexReturn

SpecLex == LexInit /\ [][LexNext]_vars

-----------------------------------------------------------------------------
(* The loops that advance the cursor, one iteration a step: the driver that  *)
(* calls parse_statement until the tokens are exhausted or a call fails,    *)
(* and the while loop of parse_block.                                       *)

(* Token::EndOfCondition | Token::Else => break, Token::EOF => break, or no token *)
BlockEnds(ts, p) ==
    IF p < Len(ts) THEN ts[p + 1].k \in {"EndOfCondition", "Else", "EOF"} ELSE TRUE

(* let mut statements = Vec::new() *)
BlockEnter ==
    /\ Fresh
    /\ call' = <<"parse_block_loop", pos>>
    /\ result' = [ok |-> TRUE, val |-> <<>>]
    /\ UNCHANGED <<tokens, pos, output, scopes, functions, watch>>
    /\ UNCHANGED lexerVars

(* statements.push(s?) for the result s of parse_statement *)
PushStatement(s) ==
    /\ pos' = s.pos
    /\ output' = s.out
    /\ IF s.ok
       THEN /\ call' = call
            /\ result' = [ok |-> TRUE, val |-> Append(result.val, s.val)]
       ELSE /\ call' = <<"parse_block", call[2]>>
            /\ result' = [ok |-> FALSE, val |-> s.val]
    /\ UNCHANGED <<tokens, scopes, functions, watch>>
    /\ UNCHANGED lexerVars

(* one iteration of the loop on a token that does not end the block *)
BlockStatement ==
    /\ InBlockLoop
    /\ ~BlockEnds(tokens, pos)
    /\ PushStatement(parse_statement(tokens, pos, output))

(* break, then Ok(statements) *)
BlockBreak ==
    /\ InBlockLoop
    /\ BlockEnds(tokens, pos)
    /\ call' = <<"parse_block", call[2]>>
    /\ UNCHANGED <<tokens, pos, output, scopes, functions, result, watch>>
    /\ UNCHANGED lexerVars

(* the driver's loop: one more statement while tokens remain and none failed *)
DriverStep ==
    /\ call[1] \in {"new", "parse_statement"}
    /\ result.ok
    /\ pos < Len(tokens)
    /\ ReturnsStmt("parse_statement", parse_statement(tokens, pos, output))

(* a caller that asks for one more statement when no token is left *)
ParseStatementAtEnd ==
    /\ call[1] \in {"new", "parse_statement"}
    /\ result.ok
    /\ pos >= Len(tokens)
    /\ ReturnsStmt("parse_statement", parse_statement(tokens, pos, output))

DriverNext ==
    \/ DriverStep
    \/ ParseStatementAtEnd
    \/ BlockEnter
    \/ BlockStatement
    \/ BlockBreak

SpecDriver == Init /\ [][DriverNext]_vars /\ WF_vars(DriverNext)

-----------------------------------------------------------------------------
(* A parser used as its callers may use it: parse_statement, define_variable, *)
(* assign_variable and get_variable called in any order.                     *)

ProgramInputs ==
    { <<>>,
      LetInput(<<T("TypeInt")>>, <<Integer(1)>>),
      <<T("Let"), Identifier("x"), T("Colon"), T("TypeInt"), T("Assign"), Integer(1),
        Identifier("x"), T("Assign"), String("s")>>,
      <<T("Let"), Identifier("x"), T("Colon"), T("TypeInt")>>,
      <<T("Func"), Identifier("f"), T("LParen"), Identifier("x"), T("Colon"),
        T("TypeInt"), T("RParen"), T("Print"), Identifier("x"), T("EndOfCondition"),
        Identifier("f"), T("LParen"), Integer(1), T("RParen")>>,
      <<T("If"), Boolean(TRUE), T("Let"), Identifier("y"), T("Colon"), T("TypeString"),
        T("Assign"), String("s"), T("EndOfCondition"), T("Print"), Identifier("y")>>,
      <<T("While"), Identifier("x"), T("Let"), Identifier("x"), T("Colon"),
        T("TypeInt"), T("Assign"), Integer(2)>>,
      <<T("EndOfCondition")>> }

ProgramInit ==
    /\ tokens \in ProgramInputs
    /\ pos = 0
    /\ output = <<>>
    /\ scopes = new_scopes
    /\ functions = EmptyMap
    /\ call = <<"new", 0>>
    /\ result = [ok |-> TRUE, val |-> <<"New">>]
    /\ watch = NoWatch
    /\ LexerIdle

(* parse_statement called whatever the last call was or returned *)
CallParseStatement ==
    /\ ~InBlockLoop
    /\ ReturnsStmt("parse_statement", parse_statement(tokens, pos, output))

ProgramNext ==
    \/ CallParseStatement
    \/ DefineVariable
    \/ AssignVariable
    \/ GetVariable

SpecProgram == ProgramInit /\ [][ProgramNext]_vars

-----------------------------------------------------------------------------
(* The scope stack around blocks: the scope methods, parse_statement and     *)
(* parse_block called in any order on a new parser, the loop of parse_block  *)
(* one iteration a step.  parse_block neither pushes a scope when it starts  *)
(* nor pops one when it returns, and no statement it parses reaches the      *)
(* scope stack.  The scope stack as it was when the block started is noted.  *)

ScopeInputs ==
    { <<>>,
      <<T("Let"), Identifier("x"), T("Colon"), T("TypeInt"), T("Assign"), Integer(2),
        T("EndOfCondition")>>,
      <<T("Let"), Identifier("y"), T("Colon"), T("TypeString"), T("Assign"),
        String("s"), T("Print"), Identifier("x"), T("EndOfCondition")>>,
      <<T("If"), Boolean(TRUE), T("Let"), Identifier("x"), T("Colon"), T("TypeInt"),
        T("Assign"), Integer(2), T("EndOfCondition")>> }

ScopeInit ==
    /\ tokens \in ScopeInputs
    /\ pos = 0
    /\ output = <<>>
    /\ scopes = new_scopes
    /\ functions = EmptyMap
    /\ call = <<"new", 0>>
    /\ result = [ok |-> TRUE, val |-> <<"New">>]
    /\ watch = NoWatch
    /\ LexerIdle

(* parse_block starts, let mut statements = Vec::new(): no scope is pushed *)
EnterBlock ==
    /\ ~InBlockLoop
    /\ call' = <<"parse_block_loop", pos>>
    /\ result' = [ok |-> TRUE, val |-> <<>>]
    /\ watch' = <<"Block", scopes>>
    /\ UNCHANGED <<tokens, pos, output, scopes, functions>>
    /\ UNCHANGED lexerVars

ScopeNext ==
    \/ DefineVariable
    \/ AssignVariable
    \/ GetVariable
    \/ CallParseStatement
    \/ EnterBlock
    \/ BlockStatement
    \/ BlockBreak

SpecScope == ScopeInit /\ [][ScopeNext]_vars

-----------------------------------------------------------------------------
(* Claims *)

Called(name) == call[1] = name /\ call[2] = 0

RECURSIVE InOrder(_), RespectsPrecedence(_)

(* the tokens of an arithmetic tree, read left to right *)
InOrder(e) ==
    CASE e[1] = "Binary"   -> InOrder(e[2]) \o <<e[3]>> \o InOrder(e[4])
      [] e[1] = "Literal"  -> <<Integer(e[2][2])>>
      [] e[1] = "Variable" -> <<Identifier(e[2])>>
      [] OTHER             -> <<T("Unknown")>>

(* 1 for + and -, 2 for * and /, 3 for an operand *)
BindingLevel(e) ==
    IF e[1] # "Binary" THEN 3
    ELSE IF e[3].k \in {"Plus", "Minus"} THEN 1 ELSE 2

(* no node has a looser operator below it, nor an operator of its own level
   on its right *)
RespectsPrecedence(e) ==
    e[1] = "Binary" =>
        /\ BindingLevel(e[2]) >= BindingLevel(e)
        /\ BindingLevel(e[4]) > BindingLevel(e)
        /\ RespectsPrecedence(e[2])
        /\ RespectsPrecedence(e[4])

OnePlusTwoTimesThree ==
    <<Integer(1), T("Plus"), Integer(2), T("Multiply"), Integer(3)>>

Lit(n) == <<"Literal", <<"Int", n>> >>

(* C1: on operands joined by + - * /, parse_expr consumes the whole input and
   returns the tree of exactly these tokens in which * and / bind tighter
   than + and - and equal levels nest to the left; 1 + 2 * 3 gives
   Binary(1, +, Binary(2, *, 3)). *)
C1_Precedence ==
    (Called("parse_expr") /\ tokens \in ArithInputs) =>
        /\ result.ok
        /\ pos = Len(tokens)
        /\ InOrder(result.val) = tokens
        /\ RespectsPrecedence(result.val)
        /\ tokens = OnePlusTwoTimesThree =>
             result.val = <<"Binary", Lit(1), T("Plus"),
                            <<"Binary", Lit(2), T("Multiply"), Lit(3)>> >>

C1_Witness ==
    /\ Called("parse_expr")
    /\ tokens = OnePlusTwoTimesThree
    /\ result.ok
    /\ result.val[4][1] = "Binary"

RECURSIVE LeftNested(_, _)

(* Index(...Index(Index(a, e1), e2)..., en), built from the last suffix inwards *)
LeftNested(es, n) ==
    IF n = 0 THEN <<"Variable", "a">>
    ELSE <<"Index", LeftNested(es, n - 1), parse_expr(es[n], 0).val>>

(* C2: for a followed by bracket suffixes, parse_factor and parse_statement
   both consume the whole input and build the same left-nested tree, the k-th
   suffix indexing the node built from the first k-1. *)
C2_IndexChain ==
    \A es \in IndexChains :
        tokens = IndexInput(es) =>
            /\ (Called("parse_factor") \/ Called("parse_expr")) =>
                  /\ result.ok /\ pos = Len(tokens)
                  /\ result.val = LeftNested(es, Len(es))
            /\ Called("parse_statement") =>
                  /\ result.ok /\ pos = Len(tokens)
                  /\ result.val = <<"Expression", LeftNested(es, Len(es))>>
                  /\ result.val[2] = parse_factor(tokens, 0).val

C2_Witness ==
    /\ Called("parse_statement")
    /\ tokens = IndexInput(<< <<Integer(0)>>, <<Integer(1)>> >>)
    /\ result.val = <<"Expression",
                      <<"Index", <<"Index", <<"Variable", "a">>, Lit(0)>>, Lit(1)>> >>

(* C3: eat(expected) returns Ok and moves the cursor by one exactly when a
   current token exists and equals expected, payload included; otherwise it
   returns UnexpectedToken(expected, found) and the cursor stays. *)
C3_Eat ==
    call[1] = "eat" =>
        IF call[2] < Len(tokens) /\ tokens[call[2] + 1] = call[3]
        THEN result.ok /\ pos = call[2] + 1
        ELSE /\ ~result.ok
             /\ pos = call[2]
             /\ result.val = UnexpectedToken(call[3],
                                 IF call[2] < Len(tokens)
                                 THEN Some(tokens[call[2] + 1]) ELSE None)

(* same variant, another payload: refused *)
C3_Witness ==
    /\ call[1] = "eat"
    /\ call[3] = Identifier("b")
    /\ ~result.ok
    /\ result.val[3] = Some(Identifier("a"))
    /\ pos = 1

(* the innermost scope that binds name, 0 if none does *)
InnermostBinding(sc, name) ==
    LET D == {d \in 1..Len(sc) : name \in DOMAIN sc[d]} IN
    IF D = {} THEN 0 ELSE CHOOSE d \in D : \A e \in D : e <= d

(* C4: assign_variable(name, v) on a name whose innermost binding holds a
   value of another variant returns TypeMismatch(existing, v) and leaves every
   scope as it was. *)
C4_TypeMismatch ==
    [][ \A name \in Names, v \in Values :
          ( /\ call' = <<"assign_variable", pos, name, v>>
            /\ InnermostBinding(scopes, name) # 0
            /\ scopes[InnermostBinding(scopes, name)][name].k # v.k )
          => /\ result' = [ok |-> FALSE,
                           val |-> TypeMismatch(
                                     scopes[InnermostBinding(scopes, name)][name], v)]
             /\ scopes' = scopes ]_vars

C4_Witness ==
    /\ call[1] = "assign_variable"
    /\ call[4] = String("s")
    /\ ~result.ok
    /\ result.val = TypeMismatch(Integer(1), String("s"))
    /\ Len(scopes) = 2

(* C5: a name bound outside a block and declared again inside it reads as
   the inner value while the block is active, and as the outer value, exactly
   as it was before the block was entered, once the block has returned.  The
   declaration inside the block is the let that parse_block has parsed. *)
C5_Shadowing ==
    \A name \in Names :
        LET lets == {n \in 1..Len(result.val) :
                        result.val[n][1] = "Let" /\ result.val[n][2] = name}
            inner == result.val[CHOOSE n \in lets : \A m \in lets : m <= n][4]
        IN  /\ (/\ call[1] = "parse_block"
                /\ result.ok
                /\ watch[1] = "Block"
                /\ get_variable(watch[2], name) # None
                /\ lets # {})
               => get_variable(scopes, name) = get_variable(watch[2], name)
            /\ (/\ InBlockLoop
                /\ get_variable(watch[2], name) # None
                /\ lets # {})
               => \A value \in Values :
                      inner = <<"Literal", token_to_literal(value)>>
                          => get_variable(scopes, name) = Some(value)

(* x = 1 was bound before the block, the running block has parsed
   let x: int = 2, and x still reads 1 *)
C5_Witness ==
    /\ InBlockLoop
    /\ watch = <<"Block", <<Insert(EmptyMap, "x", Integer(1))>> >>
    /\ Len(result.val) = 1
    /\ result.val[1][1] = "Let"
    /\ result.val[1][2] = "x"
    /\ result.val[1][4] = Lit(2)
    /\ get_variable(scopes, "x") = Some(Integer(1))

(* C6: an if, while or fn whose body runs to the end of the tokens without a
   terminator fails with UnexpectedToken(EndOfCondition, None). *)
C6_Unterminated ==
    (Called("parse_statement") /\ tokens \in UnterminatedBlocks) =>
        /\ ~result.ok
        /\ result.val = UnexpectedToken(T("EndOfCondition"), None)

C6_Witness ==
    /\ Called("parse_statement")
    /\ tokens = <<T("If"), Boolean(TRUE), T("Print"), Integer(1)>>
    /\ ~result.ok
    /\ pos = 4

RECURSIVE LiteralToken(_)

(* the value token a literal initializer denotes; Unknown for anything else *)
LiteralToken(e) ==
    CASE e[1] = "Literal" /\ e[2][1] = "Int" -> Integer(e[2][2])
      [] e[1] = "Literal" /\ e[2][1] = "Str" -> String(e[2][2])
      [] e[1] = "List" -> List([n \in 1..Len(e[2]) |-> LiteralToken(e[2][n])])
      [] OTHER -> T("Unknown")

LiteralInits ==
    { <<Integer(1)>>, <<String("a")>>,
      <<T("LBracket"), T("RBracket")>>,
      <<T("LBracket"), Integer(1), T("RBracket")>>,
      <<T("LBracket"), Integer(1), T("Comma"), String("a"), T("RBracket")>>,
      <<T("LBracket"), T("LBracket"), Integer(1), T("RBracket"), T("RBracket")>> }

(* C7: a let whose initializer literal is compatible with the declared type
   is accepted, and one whose literal is not fails with TypeMismatch. *)
C7_LetTypeChecked ==
    \A ty \in LetTypes, init \in LiteralInits :
        ( /\ Called("parse_let") \/ Called("parse_statement")
          /\ tokens = LetInput(ty, init) ) =>
            IF check_type_compatibility(parse_type(ty, 0).val,
                                        LiteralToken(parse_expr(init, 0).val))
            THEN result.ok /\ result.val[1] = "Let"
            ELSE ~result.ok /\ result.val[1] = "TypeMismatch"

C7_Witness ==
    /\ Called("parse_let")
    /\ tokens = LetInput(<<TypeList(T("Unknown")), T("Lesser"), T("TypeInt"), T("Greater")>>,
                         <<T("LBracket"), Integer(1), T("Comma"), String("a"), T("RBracket")>>)
    /\ result.ok
    /\ result.val[1] = "Let"

RECURSIVE Nodes(_, _), TypeAt(_, _)

(* every scalar and list of a value, with the number of lists around it *)
Nodes(value, d) ==
    {<<d, value.k>>} \cup
    (IF value.k = "List"
     THEN UNION {Nodes(value.v[n], d + 1) : n \in 1..Len(value.v)}
     ELSE {})

(* the marker found under d list<> layers of a type, None if it has fewer *)
TypeAt(type, d) ==
    IF d = 0 THEN type.k
    ELSE IF type.k = "TypeList" THEN TypeAt(type.v, d - 1)
    ELSE "None"

Matching ==
    { <<"TypeInt", "Integer">>, <<"TypeString", "String">>, <<"TypeBool", "Boolean">>,
      <<"TypeFloat", "Float">>, <<"TypeList", "List">> }

(* C8: check_type_compatibility(expected, value) is true exactly when every
   scalar of value is a literal of the scalar type that expected names at its
   depth and every list of value, empty or not, stands where expected names a
   list; it is false for every other pair. *)
C8_Compatibility ==
    call[1] = "check_type_compatibility" =>
        result.val[2] =
            (\A n \in Nodes(call[4], 0) : <<TypeAt(call[3], n[1]), n[2]>> \in Matching)

C8_Witness ==
    /\ call[1] = "check_type_compatibility"
    /\ call[3] = TypeList(T("TypeInt"))
    /\ call[4] = List(<<Integer(1), String("a")>>)
    /\ result.val[2] = FALSE

Quotes(cs, k) == Cardinality({n \in 1..k : cs[n].cp = Quote})

(* the character at index k stands between string literals *)
OutsideString(cs, k) == Quotes(cs, k) % 2 = 0

(* the character at index k continues a number that starts at index s *)
ContinuesNumber(cs, k) ==
    \E s \in 0..(k - 1) :
        /\ \A n \in (s + 1)..(k + 1) : ContinuesDigits(cs[n])
        /\ is_ascii_digit(cs[s + 1])
        /\ s > 0 => ~is_alphanumeric(cs[s]) /\ cs[s].cp \notin {Underscore, Point}

(* the character at index k continues an identifier that starts before it *)
ContinuesIdentifier(cs, k) ==
    \E s \in 0..(k - 1) :
        /\ is_alphabetic(cs[s + 1]) \/ cs[s + 1].cp = Underscore
        /\ \A n \in (s + 1)..(k + 1) : ContinuesIdent(cs[n])

(* index k holds a character that no token starts with and none contains *)
Stray(cs, k) ==
    /\ StartsNoToken(cs[k + 1])
    /\ OutsideString(cs, k)
    /\ ~ContinuesNumber(cs, k)
    /\ ~ContinuesIdentifier(cs, k)

Strays(cs) == {k \in 0..(Len(cs) - 1) : Stray(cs, k)}

(* C9: the lexer returns the tokens of the whole text or an error without
   tokens, and then stops; it returns tokens only when no character outside a
   string starts no token and every string is closed; it reports the index of
   the first character that starts no token, and an unterminated string only
   when a closing quote is missing. *)
C9_NoPartialSuccess ==
    /\ lexed[1] \in {"Ok", "Err"} => ~ENABLED LexNext
    /\ lexed[1] = "Ok" =>
          /\ i = Len(chars)
          /\ lexed[2] = token
          /\ Strays(chars) = {}
          /\ Quotes(chars, Len(chars)) % 2 = 0
    /\ (lexed[1] = "Err" /\ lexed[2][1] = "Unexpected token starting at index") =>
          /\ lexed[2][2] = i
          /\ i \in Strays(chars)
          /\ \A k \in Strays(chars) : i <= k
    /\ (lexed[1] = "Err" /\ lexed[2][1] = "Unterminated string literal") =>
          /\ Quotes(chars, Len(chars)) % 2 = 1
          /\ i = Len(chars)

C9_Witness ==
    /\ lexed = <<"Err", <<"Unexpected token starting at index", 2>> >>
    /\ chars = Str(<<"a", "1", ".", "\"">>)

C9_WitnessUnterminated ==
    /\ lexed = <<"Err", <<"Unterminated string literal">> >>
    /\ Len(token) = 3

AssignChar == CodePoint("=")

(* the maximal runs of = of odd length, by the index of their first character *)
OddAssignRuns(cs) ==
    {s \in 1..Len(cs) :
        /\ cs[s].cp = AssignChar
        /\ s > 1 => cs[s - 1].cp # AssignChar
        /\ \E e \in s..Len(cs) :
              /\ \A n \in s..e : cs[n].cp = AssignChar
              /\ e < Len(cs) => cs[e + 1].cp # AssignChar
              /\ (e - s + 1) % 2 = 1}

TwoCharOperators ==
    { as_str(Str(<<"=", "=">>)), as_str(Str(<<"!", "=">>)), as_str(Str(<<">", "=">>)),
      as_str(Str(<<"<", "=">>)), as_str(Str(<<".", ".">>)) }

(* C10: operators are matched longest first: of a run of = every pair is one
   == token, so that only a run of odd length leaves an assignment token, and
   the lexer does not refuse a text at the first character of a two-character
   operator. *)
C10_LongestMatch ==
    Quotes(chars, Len(chars)) = 0 =>
        /\ lexed[1] = "Ok" =>
              Cardinality({n \in 1..Len(token) : token[n] = T("Assign")})
                  = Cardinality(OddAssignRuns(chars))
        /\ (lexed[1] = "Err" /\ lexed[2][1] = "Unexpected token starting at index") =>
              ~(/\ i + 2 <= Len(chars)
                /\ as_str(SubSeq(chars, i + 1, i + 2)) \in TwoCharOperators)

C10_Witness ==
    /\ chars = Str(<<"=", "=">>)
    /\ lexed = <<"Ok", <<T("Assign"), T("Assign")>> >>

(* C11: a scope is pushed when parse_block starts on a body and popped when
   it returns, so the stack is one deeper while the statements of the body
   are parsed and as deep as before afterwards. *)
C11_ScopesFollowBlocks ==
    [][ /\ (~InBlockLoop /\ InBlockLoop') => Len(scopes') = Len(scopes) + 1
        /\ (InBlockLoop /\ InBlockLoop') => Len(scopes') = Len(scopes)
        /\ (InBlockLoop /\ ~InBlockLoop') => Len(scopes') = Len(scopes) - 1 ]_vars

(* the body print 1 has been parsed and the stack is as it was at the start *)
C11_Witness ==
    /\ InBlockLoop
    /\ tokens = <<T("Print"), Integer(1), T("EndOfCondition")>>
    /\ pos = 2
    /\ result.val = <<<<"Print", Lit(1)>> >>
    /\ scopes = new_scopes

(* C12: in every state reached from Parser::new by parse_statement,
   define_variable, assign_variable and get_variable calls, scopes holds at
   least one scope; no define_variable call panics, and it is the innermost
   scope that define_variable wrote. *)
C12_NeverEmpty ==
    /\ Len(scopes) >= 1
    /\ call[1] = "define_variable" =>
          /\ result = [ok |-> TRUE, val |-> Unit]
          /\ call[3] \in DOMAIN scopes[Len(scopes)]
          /\ scopes[Len(scopes)][call[3]] = call[4]

(* a declaration made after a statement was parsed *)
C12_Witness ==
    /\ call[1] = "define_variable"
    /\ pos > 0
    /\ Len(scopes) = 1
    /\ DOMAIN scopes[1] = {"x", "y"}

(* C13: assign_variable(name, v) looks at the innermost scope binding name
   and at no other: with the same variant there it overwrites that binding
   alone, with another variant it fails with TypeMismatch and writes nothing,
   whatever outer scopes bind; bound nowhere, it returns UndeclaredVariable
   and writes nothing. *)
C13_InnermostFirst ==
    [][ \A name \in Names, v \in Values :
          call' = <<"assign_variable", pos, name, v>> =>
            IF InnermostBinding(scopes, name) = 0
            THEN /\ result' = [ok |-> FALSE, val |-> UndeclaredVariable(name)]
                 /\ scopes' = scopes
            ELSE IF scopes[InnermostBinding(scopes, name)][name].k = v.k
            THEN /\ result' = [ok |-> TRUE, val |-> Unit]
                 /\ scopes' = [scopes EXCEPT ![InnermostBinding(scopes, name)][name] = v]
            ELSE /\ ~result'.ok
                 /\ result'.val[1] = "TypeMismatch"
                 /\ scopes' = scopes ]_vars

(* the inner binding was overwritten under an outer one of another variant *)
C13_Witness ==
    /\ call[1] = "assign_variable"
    /\ result.ok
    /\ Len(scopes) = 2
    /\ call[3] \in DOMAIN scopes[1] \cap DOMAIN scopes[2]
    /\ scopes[2][call[3]] = call[4]
    /\ scopes[1][call[3]].k # call[4].k

(* the inner binding refuses a value that the outer one would take *)
C13_WitnessMismatch ==
    /\ call[1] = "assign_variable"
    /\ ~result.ok
    /\ result.val[1] = "TypeMismatch"
    /\ Len(scopes) = 2
    /\ call[3] \in DOMAIN scopes[1] \cap DOMAIN scopes[2]
    /\ scopes[1][call[3]].k = call[4].k

RECURSIVE Replay(_, _, _, _), ReplayStep(_, _, _, _)

(* where the cursor stands after statements n.. of stmts are parsed one after
   the other from p, or -1 if the tokens there are not these statements *)
Replay(ts, p, stmts, n) ==
    IF n > Len(stmts) THEN p
    ELSE ReplayStep(ts, stmts, n, parse_statement(ts, p, <<>>))

ReplayStep(ts, stmts, n, s) ==
    IF s.ok /\ s.val = stmts[n] THEN Replay(ts, s.pos, stmts, n + 1) ELSE -1

(* C14: when parse_block succeeds the cursor is at the end of the tokens or
   on an EndOfCondition, Else or EOF token, which it has not consumed, and the
   statements it returns are exactly the tokens from its start to the cursor. *)
C14_BlockLeavesItsEnd ==
    (Called("parse_block") /\ result.ok) =>
        /\ pos <= Len(tokens)
        /\ pos < Len(tokens) => tokens[pos + 1] \in {T("EndOfCondition"), T("Else"), T("EOF")}
        /\ Replay(tokens, 0, result.val, 1) = pos

C14_Witness ==
    /\ Called("parse_block")
    /\ result.ok
    /\ tokens = <<T("Print"), Integer(1), Identifier("x"), T("EOF"), T("Print"), Integer(1)>>
    /\ pos = 3
    /\ Len(result.val) = 2

RECURSIVE HasComparison(_), ComparisonsAreFlat(_)

IsComparisonNode(e) == e[1] = "Binary" /\ IsComparison(e[3])

(* a comparison node occurs somewhere in the tree *)
HasComparison(e) ==
    CASE e[1] = "Binary"     -> IsComparison(e[3]) \/ HasComparison(e[2]) \/ HasComparison(e[4])
      [] e[1] = "Logical"    -> HasComparison(e[2]) \/ HasComparison(e[4])
      [] e[1] = "Grouping"   -> HasComparison(e[2])
      [] e[1] = "Unary"      -> HasComparison(e[3])
      [] e[1] = "Index"      -> HasComparison(e[2]) \/ HasComparison(e[3])
      [] e[1] = "List"       -> \E n \in 1..Len(e[2]) : HasComparison(e[2][n])
      [] e[1] = "Call"       -> \E n \in 1..Len(e[4]) : HasComparison(e[4][n])
      [] e[1] = "MethodCall" -> \E n \in 1..Len(e[4]) : HasComparison(e[4][n])
      [] OTHER               -> FALSE

(* comparisons stand only under and/or, and no operand of one holds another *)
ComparisonsAreFlat(e) ==
    IF e[1] = "Logical" THEN ComparisonsAreFlat(e[2]) /\ ComparisonsAreFlat(e[4])
    ELSE IF IsComparisonNode(e) THEN ~HasComparison(e[2]) /\ ~HasComparison(e[4])
    ELSE ~HasComparison(e)

ComparisonTokens(ts, p) == {n \in 1..p : IsComparison(ts[n])}

AEqualsBEqualsC ==
    <<Identifier("a"), T("Equals"), Identifier("b"), T("Equals"), Identifier("c")>>

(* C15: one call of parse_comparison consumes at most one comparison
   operator, and its operands are what parse_expr parses on either side; on
   x op y op' z it returns Binary(x, op, y) and leaves the cursor on op'; a
   tree returned by parse_condition has no comparison inside an operand of a
   comparison. *)
C15_NonAssociative ==
    /\ (Called("parse_comparison") /\ result.ok) =>
          /\ Cardinality(ComparisonTokens(tokens, pos)) <= 1
          /\ ComparisonsAreFlat(result.val)
          /\ result.val[1] # "Logical"
          /\ ComparisonTokens(tokens, pos) # {} =>
                /\ IsComparisonNode(result.val)
                /\ result.val[2] = parse_expr(tokens, 0).val
                /\ result.val[3] = tokens[parse_expr(tokens, 0).pos + 1]
                /\ result.val[4] = parse_expr(tokens, parse_expr(tokens, 0).pos + 1).val
    /\ \A c \in ComparisonChains :
          (Called("parse_comparison") /\ Len(c) = 5 /\ tokens = ComparisonInput(c)) =>
              /\ result.ok
              /\ result.val = <<"Binary", parse_expr(c[1], 0).val, c[2],
                                parse_expr(c[3], 0).val>>
              /\ pos = Len(c[1]) + 1 + Len(c[3])
              /\ tokens[pos + 1] = c[4]
    /\ (Called("parse_condition") /\ result.ok) => ComparisonsAreFlat(result.val)

C15_Witness ==
    /\ Called("parse_comparison")
    /\ tokens = AEqualsBEqualsC
    /\ result.val = <<"Binary", <<"Variable", "a">>, T("Equals"), <<"Variable", "b">> >>
    /\ pos = 3

C15_WitnessCondition ==
    /\ Called("parse_condition")
    /\ tokens = AEqualsBEqualsC
    /\ result.ok
    /\ pos = 3

XGreaterOneAndY ==
    <<Identifier("x"), T("Greater"), Integer(1), T("And"), Identifier("y")>>

(* C16: the initializer of a let is a full expression, comparison and
   logical operators included: parse_let succeeds, the Let node carries the
   whole initializer and the cursor stands after all of it. *)
C16_FullInitializer ==
    \A ty \in LetTypes, init \in LetInits :
        (Called("parse_let") /\ tokens = LetInput(ty, init)) =>
            /\ result.ok
            /\ pos = Len(tokens)
            /\ result.val = <<"Let", "xs", parse_type(ty, 0).val,
                              parse_logic_or(init, 0).val>>

(* let xs : bool = x > 1 and y returns a Let of x alone, the cursor on > *)
C16_Witness ==
    /\ Called("parse_let")
    /\ tokens = LetInput(<<T("TypeBool")>>, XGreaterOneAndY)
    /\ result.ok
    /\ result.val = <<"Let", "xs", T("TypeBool"), <<"Variable", "x">> >>
    /\ pos = 6
    /\ tokens[pos + 1] = T("Greater")

(* C17: parse_return returns Return without a value exactly when return is
   followed by EndOfCondition, Else, the EOF token or nothing; otherwise what
   follows is parsed as the value, and Return carries it or the parse fails as
   parse_expr fails. *)
C17_OptionalValue ==
    \A r \in ReturnRests :
        (Called("parse_return") /\ tokens = <<T("Return")>> \o r) =>
            IF r = <<>> \/ r[1] \in {T("EndOfCondition"), T("Else"), T("EOF")}
            THEN /\ result = [ok |-> TRUE, val |-> <<"Return", T("Return"), None>>]
                 /\ pos = 1
            ELSE /\ result.ok = parse_expr(tokens, 1).ok
                 /\ pos = parse_expr(tokens, 1).pos
                 /\ result.val = IF result.ok
                                 THEN <<"Return", T("Return"), Some(parse_expr(tokens, 1).val)>>
                                 ELSE parse_expr(tokens, 1).val

(* return before the EOF token fails in parse_factor *)
C17_Witness ==
    /\ Called("parse_return")
    /\ tokens = <<T("Return"), T("EOF")>>
    /\ ~result.ok
    /\ result.val = UnexpectedToken(T("Unknown"), Some(T("EOF")))
    /\ pos = 1

(* the statements stmts, parsed one after the other from cursor p, end at q *)
ForBodyReplays(ts, p, stmts, q) == Replay(ts, p, stmts, 1) = q

HeadKind(kinds) ==
    /\ call[2] < Len(tokens)
    /\ tokens[call[2] + 1].k \in kinds

(* C18: parse_for asks for TypeInt after for, fails with UnexpectedToken
   { TypeInt, found } without it, and on success returns For with the name, the
   two bounds parsed by parse_expr around the Range token and the body block,
   its cursor left at the end of the tokens or on the EndOfCondition, Else or
   EOF token that ended the body; the same tokens cut at the cursor parse to
   the same For.  A successful if, while or fn statement has an
   EndOfCondition as its last consumed token and does not parse without it. *)
C18_ForNeedsNoTerminator ==
    /\ (Called("parse_for") /\ tokens \in ForInputs) => result.ok
    /\ (Called("parse_for") /\ Len(tokens) >= 1 /\ tokens[1] = T("For")
          /\ ~IsKind(tokens, 1, "TypeInt")) =>
         /\ result = [ok |-> FALSE,
                      val |-> UnexpectedToken(T("TypeInt"), current_token(tokens, 1))]
         /\ pos = 1
    /\ (Called("parse_for") /\ result.ok) =>
         /\ SubSeq(tokens, 1, 4)
              = <<T("For"), T("TypeInt"), Identifier(result.val[2]), T("Assign")>>
         /\ parse_expr(tokens, 4).ok
         /\ result.val[3] = parse_expr(tokens, 4).val
         /\ IsKind(tokens, parse_expr(tokens, 4).pos, "Range")
         /\ parse_expr(tokens, parse_expr(tokens, 4).pos + 1).ok
         /\ result.val[4] = parse_expr(tokens, parse_expr(tokens, 4).pos + 1).val
         /\ result.val[1] = "For" /\ result.val[5][1] = "Block"
         /\ ForBodyReplays(tokens, parse_expr(tokens, parse_expr(tokens, 4).pos + 1).pos,
                           result.val[5][2], pos)
         /\ pos <= Len(tokens)
         /\ pos < Len(tokens) => tokens[pos + 1] \in BlockEnders
         /\ parse_for(SubSeq(tokens, 1, pos), 0, <<>>).ok
         /\ parse_for(SubSeq(tokens, 1, pos), 0, <<>>).val = result.val
    /\ (Called("parse_statement") /\ result.ok /\ HeadKind({"If", "While", "Func"})) =>
         /\ pos > call[2]
         /\ tokens[pos] = T("EndOfCondition")
         /\ ~parse_statement(SubSeq(tokens, 1, pos - 1), call[2], <<>>).ok

(* for over a body of two statements, ended by an EndOfCondition it leaves *)
C18_Witness ==
    /\ Called("parse_for")
    /\ tokens = ForHeader \o <<T("Print"), Integer(1), Identifier("x"), T("Assign"),
                                Integer(1), T("EndOfCondition"), T("Print"), Integer(1)>>
    /\ result.ok
    /\ Len(result.val[5][2]) = 2
    /\ pos = Len(ForHeader) + 5
    /\ tokens[pos + 1] = T("EndOfCondition")

(* while over one statement, its EndOfCondition consumed *)
C18_WitnessWhile ==
    /\ Called("parse_statement")
    /\ tokens = <<T("While"), Boolean(TRUE), T("Print"), Integer(1), T("EndOfCondition")>>
    /\ result.ok
    /\ pos = 5

(* C19: a parse_statement call, successful or failed, leaves scopes and
   functions as they were, so a let it parsed binds nothing and an fn it
   parsed is in no table until the caller declares them; no call changes the
   tokens. *)
C19_ProductionsLeaveTables ==
    [][ /\ tokens' = tokens
        /\ call'[1] = "parse_statement" =>
              /\ scopes' = scopes
              /\ functions' = functions
              /\ \A name \in Names : get_variable(scopes', name) = get_variable(scopes, name)
      ]_vars

(* let x : int = 1 was parsed and x is bound in no scope *)
C19_Witness ==
    /\ call[1] = "parse_statement"
    /\ result.ok
    /\ result.val[1] = "Let"
    /\ result.val[2] = "x"
    /\ get_variable(scopes, "x") = None
    /\ functions = EmptyMap

(* fn f was parsed, variables were declared, and the function table is empty *)
C19_WitnessFn ==
    /\ call[1] = "parse_statement"
    /\ result.ok
    /\ result.val[1] = "Func"
    /\ result.val[2] = "f"
    /\ functions = EmptyMap

(* a failed parse_statement after a declaration: the declaration stands *)
C19_WitnessFailed ==
    /\ call[1] = "parse_statement"
    /\ ~result.ok
    /\ get_variable(scopes, "x") # None

(* the driver has stopped, or parse_block has returned *)
Finished ==
    \/ call[1] = "parse_block"
    \/ /\ call[1] \in {"new", "parse_statement"}
       /\ ~result.ok \/ pos >= Len(tokens)

(* C20: the cursor is always between 0 and the number of tokens; a
   successful parse_statement leaves the cursor greater than it found it, in
   the driver and in the loop of parse_block; parse_statement called with the
   cursor at the end fails with UnexpectedToken { Unknown, None } and leaves
   the cursor there; and the driver and the loop of parse_block come to an
   end. *)
C20_ProgressAndTermination ==
    /\ [](0 <= pos /\ pos <= Len(tokens))
    /\ []((call[1] = "parse_statement" /\ result.ok) => pos > call[2])
    /\ []((call[1] = "parse_statement" /\ call[2] >= Len(tokens)) =>
            /\ result = [ok |-> FALSE, val |-> UnexpectedToken(T("Unknown"), None)]
            /\ pos = call[2])
    /\ [][(InBlockLoop /\ InBlockLoop') => pos' > pos]_vars
    /\ <>Finished
    /\ InBlockLoop ~> (call[1] = "parse_block")

(* the driver parsed a, then return a, and was called once more at the end *)
C20_Witness ==
    /\ call = <<"parse_statement", 3>>
    /\ tokens = <<Identifier("a"), T("Return"), Identifier("a")>>
    /\ pos = 3
    /\ result = [ok |-> FALSE, val |-> UnexpectedToken(T("Unknown"), None)]

(* the loop of parse_block after two statements, a third one to come *)
C20_WitnessBlock ==
    /\ InBlockLoop
    /\ Len(result.val) = 2
    /\ pos < Len(tokens)
    /\ ~BlockEnds(tokens, pos)

=============================================================================
